---- MODULE Spec2Model ----
(***************************************************************************)
(* Verification model of the groceries admin panel: the Redux product      *)
(* slice, the localization service, the translation key resolver, the      *)
(* product forms, the variant generator, the image upload widget and the   *)
(* order service.  Each subsystem has its own specification over the       *)
(* shared variables; the variables of the other subsystems stay at their   *)
(* initial values.                                                         *)
(***************************************************************************)
EXTENDS Integers, Sequences, FiniteSets, TLC

VARIABLES
  \* ---- store/slices/productSlice.ts : ProductState ----
  products,        \* state.products : sequence of products
  currentProduct,  \* state.currentProduct (NoProduct models null)
  loading,         \* state.loading
  error,           \* state.error (NoError models null)
  total,           \* state.pagination.total
  inflight,        \* per thunk, the calls dispatched and not yet settled
  lastPhase,       \* which reducer ran last: pending, fulfilled, rejected (history)
  \* ---- lib/localization.ts : LocalizationService and its browser ----
  currentLanguage, \* this.currentLanguage
  isInitialized,   \* this.isInitialized
  storedLang,      \* localStorage "preferred_language" (NoValue when absent)
  browserLang,     \* navigator.language.split("-")[0]
  docDir,          \* document.documentElement.dir
  docLang,         \* document.documentElement.lang
  switching,       \* per language, the POST /languages/switch calls in flight
  \* ---- callers of applyProductLocalization / applyCategoryLocalization ----
  item,            \* the product or category handed to the service
  requestedLang,   \* the language argument (NoValue when omitted)
  localized,       \* what the service returned
  \* ---- hooks/useTranslation.ts : useTranslation().t ----
  ctxLanguage,     \* useLanguage().currentLanguage
  enTranslations,  \* locales/en.json
  arTranslations,  \* locales/ar.json
  tKey,            \* the key passed to t, split at "."
  tResult,         \* what t returned
  \* ---- services/orderService.ts and the backend it calls ----
  orderDb,         \* backend: per user, the orders GET /users/:id/orders pages
  orderQuery,      \* the arguments both calls are made with
  userOrders,      \* what getUserOrders returned
  customerOrders,  \* what getOrdersByCustomer returned
  \* ---- components/products/EnhancedProductForm.tsx (both versions) ----
  formKind,        \* which version is mounted: "useState" or "formik"
  formName,        \* formData.name / formik.values.name
  formDescription, \* formData.description / formik.values.description
  formOtherValid,  \* price, categories, stock and images pass validation
  formTranslations,\* the translations state / formik.values.translations
  payload,         \* the argument of the onSubmit call made in this step
  \* ---- components/products/ImageUpload.tsx (both versions) ----
  uploadKind,      \* which version is mounted: "dropzone" or "uploadthing"
  images,          \* the images prop: the parent's list, set by onChange
  uploading,       \* UploadThing uploads in flight, each with the images
                   \* its handler closed over and the number of files sent
  \* ---- components/products/ProductVariations.tsx and its parent form ----
  options,         \* the options prop: formData.options of the parent
  variants,        \* the variants prop: formData.variants of the parent
  effectPending,   \* the useEffect on [options] has yet to run for this render
  editsApplied,    \* the saveEditOption calls that reached onChange (history)
  \* ---- store/slices/authSlice.ts, services/authService.ts, lib/axios.ts ----
  authUser,        \* state.auth.user (0 models null)
  authToken,       \* state.auth.token (NoValue models null)
  isAuthenticated, \* state.auth.isAuthenticated
  authLoading,     \* state.auth.loading
  authError,       \* state.auth.error (NoError models null)
  lsToken,         \* localStorage "token" (NoValue when absent)
  checking,        \* per token read at dispatch, the checkAuthStatus calls
                   \* whose GET /users/me is in flight
  loggingIn,       \* the login calls whose POST /users/login is in flight
  navigating,      \* window.location.href was assigned, the page has yet to load
  loginHeld,       \* a login has fulfilled and no logout was asked since (history)
  \* ---- store/slices/settingsSlice.ts : SettingsState ----
  settingLists,    \* state.systemSettings and state.userSettings, by kind
  settingTotals,   \* state.totalSystemSettings and state.totalUserSettings
  currentSetting,  \* state.currentSetting (NoSetting models null)
  settingsLoading, \* state.loading
  settingsError,   \* state.error (NoError models null)
  settingsInflight,\* per thunk, the calls dispatched and not yet settled
  \* ---- store/slices/orderSlice.ts and pages/dashboard/orders ----
  orderList,       \* state.orders.orders
  currentOrder,    \* state.orders.currentOrder (NoOrder models null)
  totalOrders,     \* state.orders.totalOrders
  ordersLoading,   \* state.orders.loading
  ordersError,     \* state.orders.error (NoError models null)
  orderInflight,   \* per thunk other than fetchOrderById, the calls not yet settled
  staleFetches,    \* per order id, the fetchOrderById calls in flight that were
                   \* followed by a later fetchOrderById
  latestFetch,     \* the fetchOrderById dispatched last: its id and how it stands
  currentFromFetch,\* currentOrder was last written by fetchOrderById.fulfilled (history)
  \* ---- store/slices/productSlice.ts, categorySlice : CategoryState ----
  categories,      \* state.categories, the ids of the categories listed
  currentCategory, \* state.currentCategory (NoCategory models null)
  catLoading,      \* state.loading
  catError,        \* state.error (NoError models null)
  categoryProducts,\* state.categoryProducts: per category id the number of
                   \* products held, NoEntry when the key is absent
  catInflight,     \* per thunk without a category argument of interest, the
                   \* calls not yet settled
  deletesInFlight, \* per category id, the deleteCategory calls not yet settled
  productFetches,  \* per category id, the fetchCategoryProducts calls in flight
                   \* that were sent while the category existed
  lateFetches,     \* per category id, those sent after its deletion
  deletedCategories,\* the ids whose deleteCategory has fulfilled (history)
  lastEvent        \* the handler that ran last and its argument (history)

prodVars == <<products, currentProduct, loading, error, total, inflight, lastPhase>>
langVars == <<currentLanguage, isInitialized, storedLang, browserLang, docDir, docLang,
              switching>>
itemVars == <<item, requestedLang, localized>>
tVars == <<ctxLanguage, enTranslations, arTranslations, tKey, tResult>>
orderVars == <<orderDb, orderQuery, userOrders, customerOrders>>
formVars == <<formKind, formName, formDescription, formOtherValid, formTranslations,
              payload>>
imageVars == <<uploadKind, images, uploading>>
variantVars == <<options, variants, effectPending, editsApplied>>
categoryVars == <<categories, currentCategory, catLoading, catError, categoryProducts,
                  catInflight, deletesInFlight, productFetches, lateFetches,
                  deletedCategories>>
orderSliceVars == <<orderList, currentOrder, totalOrders, ordersLoading, ordersError,
                    orderInflight, staleFetches, latestFetch, currentFromFetch>>
settingsVars == <<settingLists, settingTotals, currentSetting, settingsLoading,
                  settingsError, settingsInflight>>
authVars == <<authUser, authToken, isAuthenticated, authLoading, authError, lsToken,
              checking, loggingIn, navigating, loginHeld>>
vars == <<prodVars, langVars, itemVars, tVars, orderVars, formVars, imageVars, variantVars, authVars, settingsVars, orderSliceVars, categoryVars, lastEvent>>

(***************************************************************************)
(* Bounds                                                                  *)
(***************************************************************************)
MaxProductId == 1   \* product ids are 1..MaxProductId
MaxProducts == 1    \* longest product list held in the store
MaxInFlight == 2    \* thunks that may be pending at once
MaxDeficit == 1     \* the deletes stop once pagination.total reaches -MaxDeficit
MaxTotal == 2       \* the creates stop once pagination.total reaches this
MaxSwitches == 2    \* language switches that may be in flight at once
MaxKeyLen == 3      \* segments in a translation key
MaxUserId == 2      \* user ids are 1..MaxUserId
MaxOrders == 2      \* orders one user has, and the order ids
MaxPage == 2        \* page numbers asked for
MaxLimit == 2       \* page sizes asked for
MaxImages == 3      \* the maxImages prop of the mounted widget
MaxBatch == 2       \* files in one drop, selection or upload
MaxUploads == 1     \* UploadThing uploads in flight at once
MaxOptions == 2     \* variation options a product has
MaxEdits == 1      \* saveEditOption calls that reach onChange in one run
MaxSegments == 2    \* comma-separated segments typed into the values input
MaxAuthRequests == 2 \* login and checkAuthStatus requests in flight at once
MaxSettingId == 1   \* setting ids are 1..MaxSettingId
MaxSettings == 1    \* longest settings list held in the store
MaxSettingsTotal == 1  \* the creates stop once a total reaches this
MaxSettingsDeficit == 0 \* the deletes stop once a total reaches -MaxSettingsDeficit
MaxSettingRequests == 2 \* settings thunks that may be pending at once
MaxOrderId == 2     \* order ids of the order slice are 1..MaxOrderId
MaxOrderList == 1   \* longest order list held in the store
MaxOrderRequests == 2 \* order thunks that may be pending at once
MaxCategoryId == 2  \* category ids are 1..MaxCategoryId
MaxCategories == 1  \* longest category list held in the store
MaxCategoryProducts == 1 \* products in one page of a category's products
MaxCategoryRequests == 2 \* category thunks that may be pending at once

NoProduct == [id |-> 0, rev |-> 0]
NoError == "null"

ProductIds == 1..MaxProductId
\* a product as the backend returns it: its id and which revision of its
\* fields (0 the original, 1 the edited one)
Product == [id : ProductIds, rev : 0..1]

RECURSIVE SeqsUpTo(_, _)
SeqsUpTo(S, n) ==
  IF n = 0 THEN {<<>>}
  ELSE LET shorter == SeqsUpTo(S, n - 1)
       IN shorter \cup {Append(s, x) : s \in {t \in shorter : Len(t) = n - 1}, x \in S}

\* products.filter((product) => product.id !== id)
RECURSIVE WithoutId(_, _)
WithoutId(s, id) ==
  IF s = <<>> THEN <<>>
  ELSE IF Head(s).id # id THEN <<Head(s)>> \o WithoutId(Tail(s), id)
  ELSE WithoutId(Tail(s), id)

\* Array.prototype.findIndex: the first index whose element has the id, 0 for -1
FindIndex(s, id) ==
  IF \E i \in 1..Len(s) : s[i].id = id
  THEN CHOOSE i \in 1..Len(s) : s[i].id = id /\ \A j \in 1..(i - 1) : s[j].id # id
  ELSE 0

(***************************************************************************)
(* productSlice: thunks and extraReducers                                  *)
(***************************************************************************)
ProductThunks ==
  {"fetchProducts", "fetchProductById", "createProduct", "updateProduct", "deleteProduct"}

InFlightCount == inflight["fetchProducts"] + inflight["fetchProductById"]
                 + inflight["createProduct"] + inflight["updateProduct"]
                 + inflight["deleteProduct"]

\* createAsyncThunk dispatches <thunk>/pending synchronously; every pending
\* reducer of the slice is the same two assignments
DispatchPending(thunk) ==
  /\ InFlightCount < MaxInFlight
  /\ inflight' = [inflight EXCEPT ![thunk] = @ + 1]
  /\ loading' = TRUE
  /\ error' = NoError
  /\ lastPhase' = "pending"
  /\ UNCHANGED <<langVars, itemVars, tVars, orderVars, formVars, imageVars, variantVars, authVars, settingsVars, orderSliceVars, categoryVars, lastEvent>>

\* every rejected reducer: loading off, error = action.error.message || default
Rejected(thunk) ==
  /\ inflight[thunk] > 0
  /\ inflight' = [inflight EXCEPT ![thunk] = @ - 1]
  /\ loading' = FALSE
  /\ \E msg \in {"Network Error", "Failed: " \o thunk} : error' = msg
  /\ lastPhase' = "rejected"
  /\ UNCHANGED <<langVars, itemVars, tVars, orderVars, formVars, imageVars, variantVars, authVars, settingsVars, orderSliceVars, categoryVars, lastEvent>>

\* the part every fulfilled reducer shares
Settle(thunk) ==
  /\ inflight[thunk] > 0
  /\ inflight' = [inflight EXCEPT ![thunk] = @ - 1]
  /\ loading' = FALSE
  /\ lastPhase' = "fulfilled"
  /\ UNCHANGED <<langVars, itemVars, tVars, orderVars, formVars, imageVars, variantVars, authVars, settingsVars, orderSliceVars, categoryVars, lastEvent>>

FetchProductsPending ==
  /\ DispatchPending("fetchProducts")
  /\ UNCHANGED <<products, currentProduct, total>>

\* the response is either a page {data, total, totalPages} or a bare array
FetchProductsFulfilled ==
  \E data \in SeqsUpTo(Product, MaxProducts), hasTotal \in BOOLEAN :
    /\ Settle("fetchProducts")
    /\ products' = data
    /\ total' = IF hasTotal THEN Len(data) ELSE total
    /\ UNCHANGED <<error, currentProduct>>

FetchProductsRejected ==
  /\ Rejected("fetchProducts")
  /\ UNCHANGED <<products, currentProduct, total>>

FetchProductByIdPending ==
  /\ DispatchPending("fetchProductById")
  /\ UNCHANGED <<products, currentProduct, total>>

FetchProductByIdFulfilled ==
  \E p \in Product :
    /\ Settle("fetchProductById")
    /\ currentProduct' = p
    /\ UNCHANGED <<error, products, total>>

FetchProductByIdRejected ==
  /\ Rejected("fetchProductById")
  /\ UNCHANGED <<products, currentProduct, total>>

CreateProductPending ==
  /\ DispatchPending("createProduct")
  /\ UNCHANGED <<products, currentProduct, total>>

CreateProductFulfilled ==
  \E p \in Product :
    /\ Len(products) < MaxProducts
    /\ total < MaxTotal
    /\ Settle("createProduct")
    /\ products' = <<p>> \o products
    /\ total' = total + 1
    /\ UNCHANGED <<error, currentProduct>>

CreateProductRejected ==
  /\ Rejected("createProduct")
  /\ UNCHANGED <<products, currentProduct, total>>

UpdateProductPending ==
  /\ DispatchPending("updateProduct")
  /\ UNCHANGED <<products, currentProduct, total>>

UpdateProductFulfilled ==
  \E p \in Product :
    /\ Settle("updateProduct")
    /\ LET index == FindIndex(products, p.id)
       IN products' = IF index # 0 THEN [products EXCEPT ![index] = p] ELSE products
    /\ currentProduct' = IF currentProduct.id = p.id THEN p ELSE currentProduct
    /\ UNCHANGED <<error, total>>

UpdateProductRejected ==
  /\ Rejected("updateProduct")
  /\ UNCHANGED <<products, currentProduct, total>>

DeleteProductPendingOptimistic ==
  /\ DispatchPending("deleteProduct")
  /\ \E id \in ProductIds : products' = WithoutId(products, id)
  /\ UNCHANGED <<currentProduct, total>>

DeleteProductPending ==
  /\ DispatchPending("deleteProduct")
  /\ UNCHANGED <<products, currentProduct, total>>

\* the payload is the thunk's argument, the id of the product to delete
DeleteProductFulfilled ==
  \E id \in ProductIds :
    /\ total > 0 - MaxDeficit
    /\ Settle("deleteProduct")
    /\ products' = WithoutId(products, id)
    /\ total' = total - 1
    /\ currentProduct' = IF currentProduct.id = id THEN NoProduct ELSE currentProduct
    /\ UNCHANGED error

DeleteProductRejected ==
  /\ Rejected("deleteProduct")
  /\ UNCHANGED <<products, currentProduct, total>>

InitProducts ==
  /\ products = <<>>
  /\ currentProduct = NoProduct
  /\ loading = FALSE
  /\ error = NoError
  /\ total = 0
  /\ inflight = [t \in ProductThunks |-> 0]

NextProducts ==
  \/ FetchProductsPending \/ FetchProductsFulfilled \/ FetchProductsRejected
  \/ FetchProductByIdPending \/ FetchProductByIdFulfilled \/ FetchProductByIdRejected
  \/ CreateProductPending \/ CreateProductFulfilled \/ CreateProductRejected
  \/ UpdateProductPending \/ UpdateProductFulfilled \/ UpdateProductRejected
  \/ DeleteProductPending \/ DeleteProductFulfilled \/ DeleteProductRejected

(***************************************************************************)
(* lib/localization.ts: LocalizationService                                *)
(***************************************************************************)
NoValue == "null"
SupportedLanguages == {"en", "ar"}
\* what a caller may pass and what the browser may report, supported or not
RequestedLanguages == {"en", "ar", "fr"}
\* what localStorage may hold under preferred_language: nothing, the empty
\* string, a supported or an unsupported code
StoredValues == {NoValue, "", "en", "ar", "fr"}

\* initializeLanguage, lines 59-71, with the includes() checks dropped
LanguageAfterInitUnchecked ==
  IF storedLang # NoValue /\ storedLang # "" THEN storedLang ELSE browserLang

\* initializeLanguage, lines 59-71: the language the service ends with
LanguageAfterInit ==
  IF storedLang # NoValue /\ storedLang # "" /\ storedLang \in SupportedLanguages
  THEN storedLang
  ELSE IF browserLang \in SupportedLanguages THEN browserLang ELSE currentLanguage

\* ensureInitialized: initializeLanguage runs once, in the browser
EnsureInitialized ==
  /\ currentLanguage' = IF isInitialized THEN currentLanguage ELSE LanguageAfterInit
  /\ isInitialized' = TRUE

DocumentDirectionAlwaysLtr(language) == "ltr"

\* updateDocumentDirection: the value given to document.documentElement.dir
DocumentDirection(language) == IF language = "ar" THEN "rtl" ELSE "ltr"

\* getCurrentLanguage, isRTL, getLanguageParam, getAcceptLanguageHeader and
\* updateAxiosLanguage: each calls ensureInitialized and reads the language
GetCurrentLanguage ==
  /\ EnsureInitialized
  /\ lastEvent' = [op |-> "getCurrentLanguage", arg |-> "none"]
  /\ UNCHANGED <<storedLang, browserLang, docDir, docLang, switching>>
  /\ UNCHANGED <<prodVars, itemVars, tVars, orderVars, formVars, imageVars, variantVars, authVars, settingsVars, orderSliceVars, categoryVars>>

\* switchLanguage up to its await: an unsupported language throws, a
\* supported one sends POST /languages/switch
SwitchLanguageCall ==
  \E language \in RequestedLanguages :
    /\ switching["en"] + switching["ar"] < MaxSwitches
    /\ EnsureInitialized
    /\ switching' = IF language \in SupportedLanguages
                    THEN [switching EXCEPT ![language] = @ + 1]
                    ELSE switching
    /\ lastEvent' = [op |-> IF language \in SupportedLanguages
                            THEN "switchLanguage" ELSE "switchLanguageThrew",
                     arg |-> language]
    /\ UNCHANGED <<storedLang, browserLang, docDir, docLang>>
    /\ UNCHANGED <<prodVars, itemVars, tVars, orderVars, formVars, imageVars, variantVars, authVars, settingsVars, orderSliceVars, categoryVars>>

\* switchLanguage after the POST resolved, lines 113-122
SwitchLanguageResolved ==
  \E language \in SupportedLanguages :
    /\ switching[language] > 0
    /\ switching' = [switching EXCEPT ![language] = @ - 1]
    /\ currentLanguage' = language
    /\ storedLang' = language
    /\ docDir' = DocumentDirection(language)
    /\ docLang' = language
    /\ lastEvent' = [op |-> "switchLanguageResolved", arg |-> language]
    /\ UNCHANGED <<isInitialized, browserLang>>
    /\ UNCHANGED <<prodVars, itemVars, tVars, orderVars, formVars, imageVars, variantVars, authVars, settingsVars, orderSliceVars, categoryVars>>

\* switchLanguage after the POST failed, lines 123-126: rethrows
SwitchLanguageRejected ==
  \E language \in SupportedLanguages :
    /\ switching[language] > 0
    /\ switching' = [switching EXCEPT ![language] = @ - 1]
    /\ lastEvent' = [op |-> "switchLanguageRejected", arg |-> language]
    /\ UNCHANGED <<currentLanguage, isInitialized, storedLang, browserLang, docDir, docLang>>
    /\ UNCHANGED <<prodVars, itemVars, tVars, orderVars, formVars, imageVars, variantVars, authVars, settingsVars, orderSliceVars, categoryVars>>

\* the service as constructed, before any browser state is read
IdleLocalization ==
  /\ currentLanguage = "en"
  /\ isInitialized = FALSE
  /\ storedLang = NoValue
  /\ browserLang = "en"
  /\ docDir = ""
  /\ docLang = ""
  /\ switching = [l \in SupportedLanguages |-> 0]

InitLocalization ==
  /\ currentLanguage = "en"
  /\ isInitialized = FALSE
  /\ storedLang \in StoredValues
  /\ browserLang \in RequestedLanguages
  /\ docDir = ""
  /\ docLang = ""
  /\ switching = [l \in SupportedLanguages |-> 0]

NextLocalization ==
  \/ GetCurrentLanguage
  \/ SwitchLanguageCall
  \/ SwitchLanguageResolved
  \/ SwitchLanguageRejected

(***************************************************************************)
(* lib/localization.ts: applyProductLocalization, applyCategoryLocalization*)
(***************************************************************************)
\* a Translation of the given language; either field may be blank
TranslationsFor(l) == [name : {"", l \o "-name"}, description : {"", l \o "-description"}]

\* the translations map of an item: absent ({}), or entries for some languages
TranslationMaps ==
  UNION {{f \in [D -> UNION {TranslationsFor(l) : l \in D}] :
            \A l \in D : f[l] \in TranslationsFor(l)} : D \in SUBSET SupportedLanguages}

\* a product or a category: its own name and description, its translations
\* and, in rest, every other field
Items == [name : {"", "own-name"}, description : {"", "own-description"},
          rest : {"other-fields"}, translations : TranslationMaps]

NoTranslations == [l \in {} |-> NoValue]
NoItem == [name |-> "", description |-> "", rest |-> "", translations |-> NoTranslations]

\* a || b on strings
OrElse(a, b) == IF a # "" THEN a ELSE b

\* { ...item, name: t.name || item.name, description: t.description || item.description }
WithTranslation(it, t) ==
  [it EXCEPT !.name = OrElse(t.name, it.name),
             !.description = OrElse(t.description, it.description)]

ApplyProductLocalizationNoEnglishFallback(product, language) ==
  LET lang == IF language # NoValue THEN language ELSE currentLanguage'
      translations == product.translations
  IN IF lang \in DOMAIN translations
     THEN WithTranslation(product, translations[lang])
     ELSE product

\* applyProductLocalization, after ensureInitialized
ApplyProductLocalization(product, language) ==
  LET lang == IF language # NoValue THEN language ELSE currentLanguage'
      translations == product.translations
  IN IF lang \in DOMAIN translations
     THEN WithTranslation(product, translations[lang])
     ELSE IF "en" \in DOMAIN translations
     THEN WithTranslation(product, translations["en"])
     ELSE product

\* applyCategoryLocalization, after ensureInitialized
ApplyCategoryLocalization(category, language) ==
  LET lang == IF language # NoValue THEN language ELSE currentLanguage'
      translations == category.translations
  IN IF lang \in DOMAIN translations
     THEN WithTranslation(category, translations[lang])
     ELSE IF "en" \in DOMAIN translations
     THEN WithTranslation(category, translations["en"])
     ELSE category

LocalizeProduct ==
  /\ EnsureInitialized
  /\ localized' = ApplyProductLocalization(item, requestedLang)
  /\ lastEvent' = [op |-> "applyProductLocalization", arg |-> requestedLang]
  /\ UNCHANGED <<storedLang, browserLang, docDir, docLang, switching>>
  /\ UNCHANGED <<item, requestedLang>>
  /\ UNCHANGED <<prodVars, tVars, orderVars, formVars, imageVars, variantVars, authVars, settingsVars, orderSliceVars, categoryVars>>

LocalizeCategory ==
  /\ EnsureInitialized
  /\ localized' = ApplyCategoryLocalization(item, requestedLang)
  /\ lastEvent' = [op |-> "applyCategoryLocalization", arg |-> requestedLang]
  /\ UNCHANGED <<storedLang, browserLang, docDir, docLang, switching>>
  /\ UNCHANGED <<item, requestedLang>>
  /\ UNCHANGED <<prodVars, tVars, orderVars, formVars, imageVars, variantVars, authVars, settingsVars, orderSliceVars, categoryVars>>

IdleItems ==
  /\ item = NoItem
  /\ requestedLang = NoValue
  /\ localized = NoItem

InitItems ==
  /\ item \in Items
  /\ requestedLang \in SupportedLanguages \cup {NoValue}
  /\ localized = NoItem

NextItems == LocalizeProduct \/ LocalizeCategory

(***************************************************************************)
(* hooks/useTranslation.ts: the nested-key resolver t                      *)
(***************************************************************************)
\* the names a key segment and an object member may have
Segments == {"a", "b"}

\* JSON values of a locale file: a string, an object, or no member at all
Missing == [kind |-> "missing"]
Str(text) == [kind |-> "str", str |-> text]
Obj(members) == [kind |-> "obj", fields |-> members]

\* the members of a nested section: strings of the file's language
Sections(text) == {Obj(f) : f \in [Segments -> {Missing, Str(text)}]}

\* a locale file: an object whose members are strings or nested sections
LocaleFiles(text) == {Obj(f) : f \in [Segments -> {Missing, Str(text)} \cup Sections(text)]}

TranslationKeys == SeqsUpTo(Segments, MaxKeyLen) \ {<<>>}

\* key, the text that keys came from by key.split(".")
RECURSIVE KeyText(_)
KeyText(keys) ==
  IF Len(keys) = 1 THEN keys[1] ELSE keys[1] \o "." \o KeyText(Tail(keys))

\* translation && typeof translation === "object" && k in translation
HasMember(translation, k) ==
  /\ translation.kind = "obj"
  /\ translation.fields[k] # Missing

\* one of the two for loops of t: the value at the end of the path, Missing
\* as soon as a segment is not a member
RECURSIVE Navigate(_, _)
Navigate(translation, keys) ==
  IF keys = <<>> THEN translation
  ELSE IF HasMember(translation, Head(keys))
       THEN Navigate(translation.fields[Head(keys)], Tail(keys))
       ELSE Missing

\* translations[currentLanguage]
TranslationsOf(language) == IF language = "ar" THEN arTranslations ELSE enTranslations

\* typeof translation === "string" ? translation : key
StringOrKey(translation, keys) ==
  IF translation.kind = "str" THEN translation.str ELSE KeyText(keys)

TNoFallback(keys) ==
  StringOrKey(Navigate(TranslationsOf(ctxLanguage), keys), keys)

TFallbackForAnyNonString(keys) ==
  LET found == Navigate(TranslationsOf(ctxLanguage), keys)
  IN IF found.kind = "str" THEN found.str
     ELSE StringOrKey(Navigate(enTranslations, keys), keys)

\* t(key)
T(keys) ==
  LET found == Navigate(TranslationsOf(ctxLanguage), keys)
  IN IF found # Missing
     THEN StringOrKey(found, keys)
     ELSE LET fallback == Navigate(enTranslations, keys)
          IN IF fallback = Missing THEN KeyText(keys)
             ELSE StringOrKey(fallback, keys)

Translate ==
  /\ tResult' = T(tKey)
  /\ lastEvent' = [op |-> "t", arg |-> KeyText(tKey)]
  /\ UNCHANGED <<ctxLanguage, enTranslations, arTranslations, tKey>>
  /\ UNCHANGED <<prodVars, langVars, itemVars, orderVars, formVars, imageVars, variantVars, authVars, settingsVars, orderSliceVars, categoryVars>>

IdleTranslation ==
  /\ ctxLanguage = "en"
  /\ enTranslations = Obj([k \in Segments |-> Missing])
  /\ arTranslations = Obj([k \in Segments |-> Missing])
  /\ tKey = <<"a">>
  /\ tResult = ""

InitTranslation ==
  /\ ctxLanguage \in SupportedLanguages
  /\ enTranslations \in LocaleFiles("English")
  /\ arTranslations \in LocaleFiles("Arabic")
  /\ tKey \in TranslationKeys
  /\ tResult = ""

NextTranslation == Translate

(***************************************************************************)
(* services/orderService.ts: getUserOrders and getOrdersByCustomer         *)
(***************************************************************************)
\* JavaScript values the two functions handle
Undefined == [kind |-> "undefined"]
Arr(elements) == [kind |-> "array", items |-> elements]
\* the body of a paginated response, { data: ... }
PageBody(d) == [kind |-> "object", data |-> d]

Min(a, b) == IF a < b THEN a ELSE b

\* the backend's answer to GET /users/:userId/orders?page=&limit= : the
\* page of the user's orders; a user without orders gets no data field
ResponseData(userId, page, limit) ==
  LET all == orderDb[userId]
      first == (page - 1) * limit + 1
      last == Min(page * limit, Len(all))
  IN IF all = <<>> THEN PageBody(Undefined)
     ELSE PageBody(Arr(SubSeq(all, first, last)))

\* value.data
DataOf(value) == IF value.kind = "object" THEN value.data ELSE Undefined

\* value || []
OrEmptyArray(value) == IF value.kind = "undefined" THEN Arr(<<>>) ELSE value

\* getUserOrders: response.data.data || []
GetUserOrders(userId, page, limit) ==
  OrEmptyArray(DataOf(ResponseData(userId, page, limit)))

\* getOrdersByCustomer: (await getUserOrders(...)).data || []
GetOrdersByCustomer(customerId, page, limit) ==
  OrEmptyArray(DataOf(GetUserOrders(customerId, page, limit)))

CallGetUserOrders ==
  /\ userOrders' = GetUserOrders(orderQuery.id, orderQuery.page, orderQuery.limit)
  /\ lastEvent' = [op |-> "getUserOrders", arg |-> "none"]
  /\ UNCHANGED <<orderDb, orderQuery, customerOrders>>
  /\ UNCHANGED <<prodVars, langVars, itemVars, tVars, formVars, imageVars, variantVars, authVars, settingsVars, orderSliceVars, categoryVars>>

\* fetchCustomerData: setOrders(await orderService.getOrdersByCustomer(id))
CallGetOrdersByCustomer ==
  /\ customerOrders' = GetOrdersByCustomer(orderQuery.id, orderQuery.page, orderQuery.limit)
  /\ lastEvent' = [op |-> "getOrdersByCustomer", arg |-> "none"]
  /\ UNCHANGED <<orderDb, orderQuery, userOrders>>
  /\ UNCHANGED <<prodVars, langVars, itemVars, tVars, formVars, imageVars, variantVars, authVars, settingsVars, orderSliceVars, categoryVars>>

IdleOrders ==
  /\ orderDb = [u \in 1..MaxUserId |-> <<>>]
  /\ orderQuery = [id |-> 1, page |-> 1, limit |-> 1]
  /\ userOrders = Undefined
  /\ customerOrders = Undefined

InitOrders ==
  /\ orderDb \in [1..MaxUserId -> SeqsUpTo(1..MaxOrders, MaxOrders)]
  /\ orderQuery \in [id : 1..MaxUserId, page : 1..MaxPage, limit : 1..MaxLimit]
  /\ userOrders = Undefined
  /\ customerOrders = Undefined

NextOrders == CallGetUserOrders \/ CallGetOrdersByCustomer

(***************************************************************************)
(* components/products/EnhancedProductForm.tsx, TranslationForm.tsx        *)
(***************************************************************************)
\* what the name and description inputs may hold
FormNames == {"", "Milk", "Oat milk"}
FormDescriptions == {"", "Fresh", "Vegan"}
FormTexts(field) == IF field = "name" THEN FormNames ELSE FormDescriptions

\* the translations a product arrives with: English and Arabic, each
\* present or not
InitialTranslationMaps ==
  UNION {{f \in [D -> [name : {"Milk", "Oat milk", "ar-name"},
                       description : {"Fresh", "Vegan", "ar-description"}]] :
            \A l \in D : IF l = "en"
                         THEN f[l].name \in FormNames /\ f[l].description \in FormDescriptions
                         ELSE f[l] = [name |-> "ar-name", description |-> "ar-description"]}
         : D \in SUBSET SupportedLanguages}

\* { ...prev, [language]: { ...prev[language], [field]: value } }
WithTranslationField(translations, language, field, value) ==
  LET before == IF language \in DOMAIN translations
                THEN translations[language]
                ELSE [name |-> NoValue, description |-> NoValue]
  IN (language :> [before EXCEPT ![field] = value]) @@ translations

\* { ...translations, en: { name, description } }
WithEnglish(translations, name, description) ==
  ("en" :> [name |-> name, description |-> description]) @@ translations

\* the useState initializer of translations, lines 66-78
InitialFormTranslations(name, description, translations) ==
  IF "en" \notin DOMAIN translations /\ (name # "" \/ description # "")
  THEN WithEnglish(translations, name, description)
  ELSE translations

\* validateForm / the Yup schema: name and description required, the other
\* fields valid
FormValid == formName # "" /\ formDescription # "" /\ formOtherValid

NoPayload == [name |-> NoValue, description |-> NoValue, translations |-> NoTranslations]

\* handleChange of the useState version for the name and description inputs
HandleChange ==
  \E field \in {"name", "description"} : \E value \in FormTexts(field) :
    /\ formKind = "useState"
    /\ formName' = IF field = "name" THEN value ELSE formName
    /\ formDescription' = IF field = "description" THEN value ELSE formDescription
    /\ formTranslations' = WithTranslationField(formTranslations, "en", field, value)
    /\ payload' = NoPayload
    /\ lastEvent' = [op |-> "handleChange", arg |-> field]
    /\ UNCHANGED <<formKind, formOtherValid>>
    /\ UNCHANGED <<prodVars, langVars, itemVars, tVars, orderVars, imageVars, variantVars, authVars, settingsVars, orderSliceVars, categoryVars>>

\* handleBasicChange of the Formik version for the name and description inputs
HandleBasicChange ==
  \E field \in {"name", "description"} : \E value \in FormTexts(field) :
    /\ formKind = "formik"
    /\ formName' = IF field = "name" THEN value ELSE formName
    /\ formDescription' = IF field = "description" THEN value ELSE formDescription
    /\ payload' = NoPayload
    /\ lastEvent' = [op |-> "handleBasicChange", arg |-> field]
    /\ UNCHANGED <<formKind, formOtherValid, formTranslations>>
    /\ UNCHANGED <<prodVars, langVars, itemVars, tVars, orderVars, imageVars, variantVars, authVars, settingsVars, orderSliceVars, categoryVars>>

\* the price, category, stock and image handlers of either version
HandleOtherChange ==
  /\ formOtherValid' = ~formOtherValid
  /\ payload' = NoPayload
  /\ lastEvent' = [op |-> "handleOtherChange", arg |-> "none"]
  /\ UNCHANGED <<formKind, formName, formDescription, formTranslations>>
  /\ UNCHANGED <<prodVars, langVars, itemVars, tVars, orderVars, imageVars, variantVars, authVars, settingsVars, orderSliceVars, categoryVars>>

\* onTranslationChange of either version; TranslationForm disables the
\* English inputs, so only Arabic can be typed
HandleTranslationChange ==
  \E field \in {"name", "description"} :
    /\ formTranslations' =
         WithTranslationField(formTranslations, "ar", field, "ar-" \o field)
    /\ payload' = NoPayload
    /\ lastEvent' = [op |-> "handleTranslationChange", arg |-> field]
    /\ UNCHANGED <<formKind, formName, formDescription, formOtherValid>>
    /\ UNCHANGED <<prodVars, langVars, itemVars, tVars, orderVars, imageVars, variantVars, authVars, settingsVars, orderSliceVars, categoryVars>>

\* the translations of the payload the Formik version builds, lines 584-597
SubmittedTranslations ==
  IF formName # "" \/ formDescription # ""
  THEN WithEnglish(formTranslations, formName, formDescription)
  ELSE formTranslations

\* handleSubmit of the useState version, lines 205-225
HandleSubmit ==
  /\ formKind = "useState"
  /\ payload' = IF FormValid
                THEN [name |-> formName, description |-> formDescription,
                      translations |-> formTranslations]
                ELSE NoPayload
  /\ lastEvent' = [op |-> IF FormValid THEN "onSubmit" ELSE "invalid", arg |-> formKind]
  /\ UNCHANGED <<formKind, formName, formDescription, formOtherValid, formTranslations>>
  /\ UNCHANGED <<prodVars, langVars, itemVars, tVars, orderVars, imageVars, variantVars, authVars, settingsVars, orderSliceVars, categoryVars>>

\* formik.handleSubmit: validate, then the onSubmit of lines 583-599
FormikSubmit ==
  /\ formKind = "formik"
  /\ payload' = IF FormValid
                THEN [name |-> formName, description |-> formDescription,
                      translations |-> SubmittedTranslations]
                ELSE NoPayload
  /\ lastEvent' = [op |-> IF FormValid THEN "onSubmit" ELSE "invalid", arg |-> formKind]
  /\ UNCHANGED <<formKind, formName, formDescription, formOtherValid, formTranslations>>
  /\ UNCHANGED <<prodVars, langVars, itemVars, tVars, orderVars, imageVars, variantVars, authVars, settingsVars, orderSliceVars, categoryVars>>

IdleForm ==
  /\ formKind = "formik"
  /\ formName = ""
  /\ formDescription = ""
  /\ formOtherValid = FALSE
  /\ formTranslations = NoTranslations
  /\ payload = NoPayload

\* either version mounted on initialData: a new product or one to edit
InitForm ==
  \E name \in FormNames, description \in FormDescriptions,
     translations \in InitialTranslationMaps :
    /\ formKind \in {"useState", "formik"}
    /\ formName = name
    /\ formDescription = description
    /\ formOtherValid \in BOOLEAN
    /\ formTranslations = IF formKind = "useState"
                          THEN InitialFormTranslations(name, description, translations)
                          ELSE translations
    /\ payload = NoPayload

NextForm ==
  \/ HandleChange
  \/ HandleBasicChange
  \/ HandleOtherChange
  \/ HandleTranslationChange
  \/ HandleSubmit
  \/ FormikSubmit

(***************************************************************************)
(* components/products/ImageUpload.tsx                                     *)
(***************************************************************************)
\* the maxImages prop the widget is mounted with
maxImages == MaxImages

\* image URLs and File objects
ImageValues == {"a.png", "b.png"}

\* splice(index, 1) / filter((_, i) => i !== index), index counted from 1
WithoutIndex(list, index) ==
  [i \in 1..(Len(list) - 1) |-> IF i < index THEN list[i] ELSE list[i + 1]]

\* handleFiles of the drag-and-drop version: files of a wrong type or size
\* are skipped, the others appended; accepted is the files that pass
HandleFiles ==
  \E count \in 1..MaxBatch : \E accepted \in SeqsUpTo(ImageValues, count) :
    /\ uploadKind = "dropzone"
    /\ IF Len(images) + count > maxImages
       THEN /\ UNCHANGED images
            /\ lastEvent' = [op |-> "uploadRefused", arg |-> uploadKind]
       ELSE /\ images' = images \o accepted
            /\ lastEvent' = [op |-> "onChange", arg |-> uploadKind]
    /\ UNCHANGED <<uploadKind, uploading>>
    /\ UNCHANGED <<prodVars, langVars, itemVars, tVars, orderVars, formVars, variantVars, authVars, settingsVars, orderSliceVars, categoryVars>>

\* removeImage of either version
RemoveImage ==
  \E index \in 1..Len(images) :
    /\ images' = WithoutIndex(images, index)
    /\ lastEvent' = [op |-> "onChange", arg |-> uploadKind]
    /\ UNCHANGED <<uploadKind, uploading>>
    /\ UNCHANGED <<prodVars, langVars, itemVars, tVars, orderVars, formVars, variantVars, authVars, settingsVars, orderSliceVars, categoryVars>>

\* the UploadButton, rendered while images.length < maxImages, starts an
\* upload; the completion handler it was given closes over images
StartUpload ==
  \E files \in SeqsUpTo(ImageValues, MaxBatch) \ {<<>>} :
    /\ uploadKind = "uploadthing"
    /\ Len(images) < maxImages
    /\ Cardinality(uploading) < MaxUploads
    /\ uploading' = uploading \cup {[closedOver |-> images, urls |-> files]}
    /\ lastEvent' = [op |-> "startUpload", arg |-> uploadKind]
    /\ UNCHANGED <<uploadKind, images>>
    /\ UNCHANGED <<prodVars, langVars, itemVars, tVars, orderVars, formVars, variantVars, authVars, settingsVars, orderSliceVars, categoryVars>>

HandleImageUploadNoLimit ==
  \E upload \in uploading : \E seen \in {upload.closedOver, images} :
    /\ uploading' = uploading \ {upload}
    /\ images' = seen \o upload.urls
    /\ lastEvent' = [op |-> "onChange", arg |-> uploadKind]
    /\ UNCHANGED uploadKind
    /\ UNCHANGED <<prodVars, langVars, itemVars, tVars, orderVars, formVars, variantVars, authVars, settingsVars, orderSliceVars, categoryVars>>

\* handleImageUpload, run by onClientUploadComplete: with the images of the
\* render that started the upload or with the current ones, whichever
\* handler the library kept
HandleImageUpload ==
  \E upload \in uploading : \E seen \in {upload.closedOver, images} :
    /\ uploading' = uploading \ {upload}
    /\ LET next == seen \o upload.urls
       IN IF Len(next) > maxImages
          THEN /\ UNCHANGED images
               /\ lastEvent' = [op |-> "uploadRefused", arg |-> uploadKind]
          ELSE /\ images' = next
               /\ lastEvent' = [op |-> "onChange", arg |-> uploadKind]
    /\ UNCHANGED uploadKind
    /\ UNCHANGED <<prodVars, langVars, itemVars, tVars, orderVars, formVars, variantVars, authVars, settingsVars, orderSliceVars, categoryVars>>

\* onUploadError: a toast
UploadFailed ==
  \E upload \in uploading :
    /\ uploading' = uploading \ {upload}
    /\ lastEvent' = [op |-> "onUploadError", arg |-> uploadKind]
    /\ UNCHANGED <<uploadKind, images>>
    /\ UNCHANGED <<prodVars, langVars, itemVars, tVars, orderVars, formVars, variantVars, authVars, settingsVars, orderSliceVars, categoryVars>>

IdleImages ==
  /\ uploadKind = "uploadthing"
  /\ images = <<>>
  /\ uploading = {}

\* mounted on a product with at most maxImages images
InitImages ==
  /\ uploadKind \in {"dropzone", "uploadthing"}
  /\ images \in SeqsUpTo(ImageValues, maxImages)
  /\ uploading = {}

NextImages ==
  \/ HandleFiles
  \/ RemoveImage
  \/ StartUpload
  \/ HandleImageUpload
  \/ UploadFailed

(***************************************************************************)
(* components/products/ProductVariations.tsx                               *)
(***************************************************************************)
\* what is typed into the option name input
OptionNames == {"Size", "size", "Color"}

\* String.prototype.toLowerCase on those names
ToLowerCase(name) ==
  CASE name = "Size" -> "size"
    [] name = "Color" -> "color"
    [] OTHER -> name

\* what is typed between the commas of the values input, already trimmed;
\* Blank is a segment of white space only
Blank == ""
OptionValues == {"S", "M"}
ValueInputs == SeqsUpTo(OptionValues \cup {Blank}, MaxSegments) \ {<<>>}

\* optionValues.trim() is empty: nothing but white space, and no comma
IsBlankText(segments) == Len(segments) = 1 /\ segments[1] = Blank

\* optionValues.split(',').map(v => v.trim()).filter(v => v)
RECURSIVE SplitValues(_)
SplitValues(segments) ==
  IF segments = <<>> THEN <<>>
  ELSE IF Head(segments) = Blank THEN SplitValues(Tail(segments))
       ELSE <<Head(segments)>> \o SplitValues(Tail(segments))

\* Date.now().toString() of a new option: an id no present option has
FreshOptionId(opts) ==
  CHOOSE id \in 1..(Len(opts) + 1) : \A i \in 1..Len(opts) : opts[i].id # id

\* {} : a variant without attributes
NoAttributes == [name \in {} |-> Blank]

\* { ...attributes } with delete attributes[name]
WithoutAttribute(attributes, name) ==
  [key \in DOMAIN attributes \ {name} |-> attributes[key]]

\* options.filter(opt => opt.id !== id)
RECURSIVE WithoutOption(_, _)
WithoutOption(opts, id) ==
  IF opts = <<>> THEN <<>>
  ELSE IF Head(opts).id = id THEN WithoutOption(Tail(opts), id)
       ELSE <<Head(opts)>> \o WithoutOption(Tail(opts), id)

\* shouldRegenerateVariants: some variant lacks one of the option names
ShouldRegenerateVariants(opts, vs) ==
  \/ Len(vs) = 0
  \/ \E i \in 1..Len(vs) :
       ~(\A j \in 1..Len(opts) : opts[j].name \in DOMAIN vs[i].attributes)

\* generateCombinations(optionIndex, currentCombination): the forEach over
\* currentOption.values is the walk over valueIndex
RECURSIVE GenerateCombinations(_, _, _)
RECURSIVE CombinationsFromValue(_, _, _, _)
GenerateCombinations(opts, optionIndex, currentCombination) ==
  IF optionIndex > Len(opts) THEN <<currentCombination>>
  ELSE CombinationsFromValue(opts, optionIndex, currentCombination, 1)

CombinationsFromValue(opts, optionIndex, currentCombination, valueIndex) ==
  IF valueIndex > Len(opts[optionIndex].values) THEN <<>>
  ELSE LET currentOption == opts[optionIndex]
           newCombination ==
             (currentOption.name :> currentOption.values[valueIndex])
               @@ currentCombination
       IN GenerateCombinations(opts, optionIndex + 1, newCombination)
            \o CombinationsFromValue(opts, optionIndex, currentCombination,
                                     valueIndex + 1)

\* Object.entries(combination).every(([key, value]) => v.attributes[key] === value)
SameAttributes(variant, combination) ==
  \A key \in DOMAIN combination :
    /\ key \in DOMAIN variant.attributes
    /\ variant.attributes[key] = combination[key]

\* a new variant: price 0, stock 0, no sku
NewVariant(combination) == [attributes |-> combination]

\* generateVariants: one variant per combination, the first existing variant
\* that has the combination's attributes being kept
GenerateVariants(opts, vs) ==
  LET combinations == GenerateCombinations(opts, 1, NoAttributes)
      existing(c) == {i \in 1..Len(vs) : SameAttributes(vs[i], c)}
  IN [k \in 1..Len(combinations) |->
        IF existing(combinations[k]) # {}
        THEN vs[CHOOSE i \in existing(combinations[k]) :
                  \A j \in existing(combinations[k]) : i <= j]
        ELSE NewVariant(combinations[k])]

\* addOption: the name and the values typed, then "Add Option"
AddOption ==
  \E optionName \in OptionNames : \E optionValues \in ValueInputs :
    /\ ~effectPending
    /\ Len(options) < MaxOptions
    /\ IF \/ IsBlankText(optionValues)
          \/ \E i \in 1..Len(options) :
               ToLowerCase(options[i].name) = ToLowerCase(optionName)
       THEN /\ UNCHANGED <<options, variants, effectPending, editsApplied>>
            /\ lastEvent' = [op |-> "addOptionRefused", arg |-> optionName]
       ELSE /\ options' = Append(options, [id |-> FreshOptionId(options),
                                           name |-> optionName,
                                           values |-> SplitValues(optionValues)])
            /\ effectPending' = TRUE
            /\ UNCHANGED <<variants, editsApplied>>
            /\ lastEvent' = [op |-> "addOption", arg |-> optionName]
    /\ UNCHANGED <<prodVars, langVars, itemVars, tVars, orderVars, formVars, imageVars, authVars, settingsVars, orderSliceVars, categoryVars>>

\* removeOption: the bin button of an option
RemoveOption ==
  \E index \in 1..Len(options) :
    /\ ~effectPending
    /\ options' = WithoutOption(options, options[index].id)
    /\ variants' = [i \in 1..Len(variants) |->
                      [variants[i] EXCEPT
                         !.attributes = WithoutAttribute(@, options[index].name)]]
    /\ effectPending' = TRUE
    /\ UNCHANGED editsApplied
    /\ lastEvent' = [op |-> "removeOption", arg |-> options[index].name]
    /\ UNCHANGED <<prodVars, langVars, itemVars, tVars, orderVars, formVars, imageVars, authVars, settingsVars, orderSliceVars, categoryVars>>

\* saveEditOption, name changed: every variant's attribute of the old name
\* is moved to the new name
RenamedAttributes(attributes, oldName, newName) ==
  IF oldName \in DOMAIN attributes
  THEN (newName :> attributes[oldName]) @@ WithoutAttribute(attributes, oldName)
  ELSE attributes

\* saveEditOption, name kept: a variant whose value is no longer among the
\* values gets values[0] || ''
RevaluedAttributes(attributes, name, values) ==
  IF /\ name \in DOMAIN attributes
     /\ attributes[name] # Blank
     /\ \A k \in 1..Len(values) : values[k] # attributes[name]
  THEN [attributes EXCEPT ![name] = IF values = <<>> THEN Blank ELSE values[1]]
  ELSE attributes

\* what the build makes of reading newOptions inside the callback of the map
\* that initialises it: const kept, the read throws a ReferenceError;
\* const compiled to var, the read yields undefined
NewOptionsReads == {"throws", "undefined"}

\* saveEditOption: the tick button of the option being edited, with the name
\* and values typed after startEditOption.  onChange is called from inside
\* options.map, before newOptions is initialised; the mapped array itself is
\* never handed to onChange.  The form passes formData.options || [] down.
SaveEditOption ==
  \E index \in 1..Len(options) : \E editingOptionName \in OptionNames :
  \E editingOptionValues \in ValueInputs : \E read \in NewOptionsReads :
    /\ ~effectPending
    /\ editsApplied < MaxEdits
    /\ IF \/ IsBlankText(editingOptionValues)
          \/ \E i \in 1..Len(options) :
               /\ options[i].id # options[index].id
               /\ ToLowerCase(options[i].name) = ToLowerCase(editingOptionName)
       THEN /\ UNCHANGED <<options, variants, effectPending, editsApplied>>
            /\ lastEvent' = [op |-> "saveEditOptionRefused", arg |-> editingOptionName]
       ELSE IF read = "throws"
       THEN /\ UNCHANGED <<options, variants, effectPending, editsApplied>>
            /\ lastEvent' = [op |-> "saveEditOptionThrew", arg |-> editingOptionName]
       ELSE LET oldName == options[index].name
                values == SplitValues(editingOptionValues)
            IN /\ options' = <<>>
               /\ variants' =
                    [i \in 1..Len(variants) |->
                       [variants[i] EXCEPT !.attributes =
                          IF oldName # editingOptionName
                          THEN RenamedAttributes(@, oldName, editingOptionName)
                          ELSE RevaluedAttributes(@, oldName, values)]]
               /\ effectPending' = TRUE
               /\ editsApplied' = editsApplied + 1
               /\ lastEvent' = [op |-> "saveEditOption", arg |-> editingOptionName]
    /\ UNCHANGED <<prodVars, langVars, itemVars, tVars, orderVars, formVars, imageVars, authVars, settingsVars, orderSliceVars, categoryVars>>

\* the effect on [options], run after the render a new options array caused
OptionsEffect ==
  /\ effectPending
  /\ effectPending' = FALSE
  /\ IF Len(options) > 0 /\ (Len(variants) = 0 \/ ShouldRegenerateVariants(options, variants))
     THEN /\ variants' = GenerateVariants(options, variants)
          /\ lastEvent' = [op |-> "generateVariants", arg |-> "none"]
     ELSE /\ UNCHANGED variants
          /\ lastEvent' = [op |-> "effectSkipped", arg |-> "none"]
  /\ UNCHANGED <<options, editsApplied>>
  /\ UNCHANGED <<prodVars, langVars, itemVars, tVars, orderVars, formVars, imageVars, authVars, settingsVars, orderSliceVars, categoryVars>>

IdleVariations ==
  /\ options = <<>>
  /\ variants = <<>>
  /\ effectPending = FALSE
  /\ editsApplied = 0

\* mounted in the form of a new product: no options, no variants, and the
\* effect of the first render to run
InitVariations ==
  /\ options = <<>>
  /\ variants = <<>>
  /\ effectPending = TRUE
  /\ editsApplied = 0

NextVariations ==
  \/ AddOption
  \/ RemoveOption
  \/ SaveEditOption
  \/ OptionsEffect

(***************************************************************************)
(* store/slices/authSlice.ts with authService and the axios interceptor    *)
(***************************************************************************)
\* tokens the backend issues; the first may be left in localStorage by an
\* earlier session
Tokens == {"t1", "t2"}
NoUser == 0
TheUser == 1

AuthRequestsInFlight == loggingIn + checking["t1"] + checking["t2"]

\* checkAuthStatus.rejected
CheckRejectedState ==
  /\ authLoading' = FALSE
  /\ authUser' = NoUser
  /\ authToken' = NoValue
  /\ isAuthenticated' = FALSE

\* the App effect: dispatch(checkAuthStatus()).  The pending reducer and the
\* thunk's code up to its first await run inside the dispatch: without a
\* token it rejects at once, with one it sends GET /users/me
DispatchCheckAuthStatus ==
  /\ IF lsToken = NoValue
     THEN /\ CheckRejectedState
          /\ UNCHANGED checking
          /\ lastEvent' = [op |-> "checkAuthStatus.rejected", arg |-> "No token found"]
     ELSE /\ AuthRequestsInFlight < MaxAuthRequests
          /\ authLoading' = TRUE
          /\ checking' = [checking EXCEPT ![lsToken] = @ + 1]
          /\ UNCHANGED <<authUser, authToken, isAuthenticated>>
          /\ lastEvent' = [op |-> "checkAuthStatus.pending", arg |-> lsToken]
  /\ UNCHANGED <<authError, lsToken, loggingIn, navigating, loginHeld>>
  /\ UNCHANGED <<prodVars, langVars, itemVars, tVars, orderVars, formVars, imageVars, variantVars, settingsVars, orderSliceVars, categoryVars>>

\* GET /users/me answered: checkAuthStatus.fulfilled with the token the thunk
\* read when it started
CheckAuthStatusFulfilled ==
  \E token \in Tokens :
    /\ checking[token] > 0
    /\ checking' = [checking EXCEPT ![token] = @ - 1]
    /\ authLoading' = FALSE
    /\ authUser' = TheUser
    /\ authToken' = token
    /\ isAuthenticated' = TRUE
    /\ lastEvent' = [op |-> "checkAuthStatus.fulfilled", arg |-> token]
    /\ UNCHANGED <<authError, lsToken, loggingIn, navigating, loginHeld>>
    /\ UNCHANGED <<prodVars, langVars, itemVars, tVars, orderVars, formVars, imageVars, variantVars, settingsVars, orderSliceVars, categoryVars>>

\* GET /users/me failed: on 401 the response interceptor removes the token
\* and assigns window.location.href; the thunk's catch calls
\* authService.logout(); then checkAuthStatus.rejected
CheckAuthStatusFailed ==
  \E token \in Tokens, unauthorized \in BOOLEAN :
    /\ checking[token] > 0
    /\ checking' = [checking EXCEPT ![token] = @ - 1]
    /\ lsToken' = NoValue
    /\ navigating' = (navigating \/ unauthorized)
    /\ CheckRejectedState
    /\ lastEvent' = [op |-> "checkAuthStatus.rejected", arg |-> token]
    /\ UNCHANGED <<authError, loggingIn, loginHeld>>
    /\ UNCHANGED <<prodVars, langVars, itemVars, tVars, orderVars, formVars, imageVars, variantVars, settingsVars, orderSliceVars, categoryVars>>

\* the login page's handleSubmit: dispatch(login(formData)), login.pending
DispatchLogin ==
  /\ AuthRequestsInFlight < MaxAuthRequests
  /\ loggingIn' = loggingIn + 1
  /\ authLoading' = TRUE
  /\ authError' = NoError
  /\ lastEvent' = [op |-> "login.pending", arg |-> "none"]
  /\ UNCHANGED <<authUser, authToken, isAuthenticated, lsToken, checking, navigating, loginHeld>>
  /\ UNCHANGED <<prodVars, langVars, itemVars, tVars, orderVars, formVars, imageVars, variantVars, settingsVars, orderSliceVars, categoryVars>>

\* POST /users/login answered: authService.login stores the token, then
\* login.fulfilled
LoginFulfilled ==
  \E token \in Tokens :
    /\ loggingIn > 0
    /\ loggingIn' = loggingIn - 1
    /\ lsToken' = token
    /\ authLoading' = FALSE
    /\ authUser' = TheUser
    /\ authToken' = token
    /\ isAuthenticated' = TRUE
    /\ loginHeld' = TRUE
    /\ lastEvent' = [op |-> "login.fulfilled", arg |-> token]
    /\ UNCHANGED <<authError, checking, navigating>>
    /\ UNCHANGED <<prodVars, langVars, itemVars, tVars, orderVars, formVars, imageVars, variantVars, settingsVars, orderSliceVars, categoryVars>>

\* POST /users/login failed: the interceptor on 401, then login.rejected with
\* the server's message or "Login failed"
LoginRejected ==
  \E unauthorized \in BOOLEAN :
    /\ loggingIn > 0
    /\ loggingIn' = loggingIn - 1
    /\ lsToken' = IF unauthorized THEN NoValue ELSE lsToken
    /\ navigating' = (navigating \/ unauthorized)
    /\ authLoading' = FALSE
    /\ authError' = IF unauthorized THEN "Invalid credentials" ELSE "Login failed"
    /\ lastEvent' = [op |-> "login.rejected", arg |-> "none"]
    /\ UNCHANGED <<authUser, authToken, isAuthenticated, checking, loginHeld>>
    /\ UNCHANGED <<prodVars, langVars, itemVars, tVars, orderVars, formVars, imageVars, variantVars, settingsVars, orderSliceVars, categoryVars>>

\* handleLogout of DashboardLayout: the thunk calls authService.logout(),
\* then logout.fulfilled
Logout ==
  /\ lsToken' = NoValue
  /\ authUser' = NoUser
  /\ authToken' = NoValue
  /\ isAuthenticated' = FALSE
  /\ loginHeld' = FALSE
  /\ lastEvent' = [op |-> "logout.fulfilled", arg |-> "none"]
  /\ UNCHANGED <<authLoading, authError, checking, loggingIn, navigating>>
  /\ UNCHANGED <<prodVars, langVars, itemVars, tVars, orderVars, formVars, imageVars, variantVars, settingsVars, orderSliceVars, categoryVars>>

\* the store of a freshly loaded page: initialState, token from localStorage
FreshAuthStore ==
  /\ authUser = NoUser
  /\ authToken = lsToken
  /\ isAuthenticated = FALSE
  /\ authLoading = FALSE
  /\ authError = NoError
  /\ checking = [token \in Tokens |-> 0]
  /\ loggingIn = 0
  /\ navigating = FALSE

\* the navigation to /login the interceptor asked for: the page loads anew,
\* the answers to the old page's requests are lost
PageReload ==
  /\ navigating
  /\ UNCHANGED <<lsToken, loginHeld>>
  /\ authUser' = NoUser
  /\ authToken' = lsToken
  /\ isAuthenticated' = FALSE
  /\ authLoading' = FALSE
  /\ authError' = NoError
  /\ checking' = [token \in Tokens |-> 0]
  /\ loggingIn' = 0
  /\ navigating' = FALSE
  /\ lastEvent' = [op |-> "pageLoad", arg |-> "/login"]
  /\ UNCHANGED <<prodVars, langVars, itemVars, tVars, orderVars, formVars, imageVars, variantVars, settingsVars, orderSliceVars, categoryVars>>

IdleAuth ==
  /\ lsToken = NoValue
  /\ FreshAuthStore
  /\ loginHeld = FALSE

\* the app loads with or without a token left in localStorage
InitAuth ==
  /\ lsToken \in {NoValue, "t1"}
  /\ FreshAuthStore
  /\ loginHeld = FALSE

NextAuth ==
  \/ DispatchCheckAuthStatus
  \/ CheckAuthStatusFulfilled
  \/ CheckAuthStatusFailed
  \/ DispatchLogin
  \/ LoginFulfilled
  \/ LoginRejected
  \/ Logout
  \/ PageReload

(***************************************************************************)
(* store/slices/settingsSlice.ts: thunks and extraReducers                 *)
(***************************************************************************)
SettingKinds == {"System", "User"}
SettingOps == {"fetch", "create", "update", "delete"}
SettingIds == 1..MaxSettingId
NoSetting == 0

\* the thunk's name: fetchSystemSettings, createUserSetting, ...
SettingThunk(op, kind) == op \o kind \o (IF op = "fetch" THEN "Settings" ELSE "Setting")
SettingThunks == {SettingThunk(op, kind) : op \in SettingOps, kind \in SettingKinds}

RECURSIVE SumOver(_, _)
SumOver(f, S) ==
  IF S = {} THEN 0
  ELSE LET x == CHOOSE y \in S : TRUE IN f[x] + SumOver(f, S \ {x})

SettingsInFlightCount == SumOver(settingsInflight, SettingThunks)

\* settings.filter((setting) => setting.id !== id)
RECURSIVE WithoutSetting(_, _)
WithoutSetting(list, id) ==
  IF list = <<>> THEN <<>>
  ELSE IF Head(list) = id THEN WithoutSetting(Tail(list), id)
       ELSE <<Head(list)>> \o WithoutSetting(Tail(list), id)

\* every pending reducer of the slice: loading on, error cleared
SettingsPending(thunk) ==
  /\ SettingsInFlightCount < MaxSettingRequests
  /\ settingsInflight' = [settingsInflight EXCEPT ![thunk] = @ + 1]
  /\ settingsLoading' = TRUE
  /\ settingsError' = NoError
  /\ UNCHANGED <<settingLists, settingTotals, currentSetting>>
  /\ lastEvent' = [op |-> "pending", arg |-> "settings"]
  /\ UNCHANGED <<prodVars, langVars, itemVars, tVars, orderVars, formVars, imageVars, variantVars, authVars, orderSliceVars, categoryVars>>

\* every rejected reducer: loading off, error = action.payload, the server's
\* message or the thunk's default
SettingsRejected(thunk) ==
  /\ settingsInflight[thunk] > 0
  /\ settingsInflight' = [settingsInflight EXCEPT ![thunk] = @ - 1]
  /\ settingsLoading' = FALSE
  /\ settingsError' = "Failed: " \o thunk
  /\ UNCHANGED <<settingLists, settingTotals, currentSetting>>
  /\ lastEvent' = [op |-> "rejected", arg |-> "settings"]
  /\ UNCHANGED <<prodVars, langVars, itemVars, tVars, orderVars, formVars, imageVars, variantVars, authVars, orderSliceVars, categoryVars>>

\* the part every fulfilled reducer shares
SettingsSettle(thunk) ==
  /\ settingsInflight[thunk] > 0
  /\ settingsInflight' = [settingsInflight EXCEPT ![thunk] = @ - 1]
  /\ settingsLoading' = FALSE
  /\ lastEvent' = [op |-> "fulfilled", arg |-> "settings"]
  /\ UNCHANGED <<prodVars, langVars, itemVars, tVars, orderVars, formVars, imageVars, variantVars, authVars, orderSliceVars, categoryVars>>

\* the Settings page's effect: dispatch(fetchSystemSettings({})) and
\* dispatch(fetchUserSettings({})) one after the other
SettingsPageMount ==
  /\ SettingsInFlightCount + 2 <= MaxSettingRequests
  /\ settingsInflight' = [settingsInflight EXCEPT !["fetchSystemSettings"] = @ + 1,
                                                  !["fetchUserSettings"] = @ + 1]
  /\ settingsLoading' = TRUE
  /\ settingsError' = NoError
  /\ UNCHANGED <<settingLists, settingTotals, currentSetting>>
  /\ lastEvent' = [op |-> "pending", arg |-> "settings"]
  /\ UNCHANGED <<prodVars, langVars, itemVars, tVars, orderVars, formVars, imageVars, variantVars, authVars, orderSliceVars, categoryVars>>

FetchSettingsPending == \E kind \in SettingKinds : SettingsPending(SettingThunk("fetch", kind))
CreateSettingPending == \E kind \in SettingKinds : SettingsPending(SettingThunk("create", kind))
UpdateSettingPending == \E kind \in SettingKinds : SettingsPending(SettingThunk("update", kind))
DeleteSettingPending == \E kind \in SettingKinds : SettingsPending(SettingThunk("delete", kind))

FetchSettingsRejected == \E kind \in SettingKinds : SettingsRejected(SettingThunk("fetch", kind))
CreateSettingRejected == \E kind \in SettingKinds : SettingsRejected(SettingThunk("create", kind))
UpdateSettingRejected == \E kind \in SettingKinds : SettingsRejected(SettingThunk("update", kind))
DeleteSettingRejected == \E kind \in SettingKinds : SettingsRejected(SettingThunk("delete", kind))

\* fetchSystemSettings.fulfilled / fetchUserSettings.fulfilled
FetchSettingsFulfilled ==
  \E kind \in SettingKinds : \E data \in SeqsUpTo(SettingIds, MaxSettings) :
    /\ SettingsSettle(SettingThunk("fetch", kind))
    /\ settingLists' = [settingLists EXCEPT ![kind] = data]
    /\ settingTotals' = [settingTotals EXCEPT ![kind] = Len(data)]
    /\ UNCHANGED <<settingsError, currentSetting>>

\* createSystemSetting.fulfilled / createUserSetting.fulfilled
CreateSettingFulfilled ==
  \E kind \in SettingKinds : \E id \in SettingIds :
    /\ Len(settingLists[kind]) < MaxSettings
    /\ settingTotals[kind] < MaxSettingsTotal
    /\ SettingsSettle(SettingThunk("create", kind))
    /\ settingLists' = [settingLists EXCEPT ![kind] = Append(@, id)]
    /\ settingTotals' = [settingTotals EXCEPT ![kind] = @ + 1]
    /\ UNCHANGED <<settingsError, currentSetting>>

\* updateSystemSetting.fulfilled / updateUserSetting.fulfilled: the setting
\* of that id is replaced by the payload, which becomes currentSetting
UpdateSettingFulfilled ==
  \E kind \in SettingKinds : \E id \in SettingIds :
    /\ SettingsSettle(SettingThunk("update", kind))
    /\ currentSetting' = id
    /\ UNCHANGED <<settingsError, settingLists, settingTotals>>

\* deleteSystemSetting.fulfilled / deleteUserSetting.fulfilled
DeleteSettingFulfilled ==
  \E kind \in SettingKinds : \E id \in SettingIds :
    /\ settingTotals[kind] > 0 - MaxSettingsDeficit
    /\ SettingsSettle(SettingThunk("delete", kind))
    /\ settingLists' = [settingLists EXCEPT ![kind] = WithoutSetting(@, id)]
    /\ settingTotals' = [settingTotals EXCEPT ![kind] = @ - 1]
    /\ currentSetting' = IF currentSetting = id THEN NoSetting ELSE currentSetting
    /\ UNCHANGED settingsError

IdleSettings ==
  /\ settingLists = [kind \in SettingKinds |-> <<>>]
  /\ settingTotals = [kind \in SettingKinds |-> 0]
  /\ currentSetting = NoSetting
  /\ settingsLoading = FALSE
  /\ settingsError = NoError
  /\ settingsInflight = [thunk \in SettingThunks |-> 0]

NextSettings ==
  \/ SettingsPageMount
  \/ FetchSettingsPending \/ FetchSettingsFulfilled \/ FetchSettingsRejected
  \/ CreateSettingPending \/ CreateSettingFulfilled \/ CreateSettingRejected
  \/ UpdateSettingPending \/ UpdateSettingFulfilled \/ UpdateSettingRejected
  \/ DeleteSettingPending \/ DeleteSettingFulfilled \/ DeleteSettingRejected

(***************************************************************************)
(* store/slices/orderSlice.ts with the order list and order detail pages   *)
(***************************************************************************)
OrderIds == 1..MaxOrderId
\* Order['status']; "processing" is treated like "pending" everywhere and
\* is left out
OrderStatuses == {"pending", "shipped", "delivered", "cancelled"}
Orders == [id : OrderIds, status : OrderStatuses]
NoOrder == [id |-> 0, status |-> "none"]

\* the thunks whose fulfilled reducer stores the payload as currentOrder and
\* replaces it in the list
OrderUpdateThunks ==
  {"updateOrderStatus", "updatePaymentStatus", "addOrderNotes", "cancelOrder"}
CountedOrderThunks == {"fetchOrders"} \cup OrderUpdateThunks

OrderRequestsInFlight ==
  SumOver(orderInflight, CountedOrderThunks) + SumOver(staleFetches, OrderIds)
    + (IF latestFetch.phase = "pending" THEN 1 ELSE 0)

\* orders.findIndex((order) => order.id === id), 0 for -1
FindOrderIndex(list, id) ==
  IF \E i \in 1..Len(list) : list[i].id = id
  THEN CHOOSE i \in 1..Len(list) : list[i].id = id /\ \A j \in 1..(i - 1) : list[j].id # id
  ELSE 0

\* every pending reducer of the slice
OrdersPendingState ==
  /\ OrderRequestsInFlight < MaxOrderRequests
  /\ ordersLoading' = TRUE
  /\ ordersError' = NoError

\* every rejected reducer of the slice
OrdersRejectedState(thunk) ==
  /\ ordersLoading' = FALSE
  /\ ordersError' = "Failed: " \o thunk

\* the Orders page's effect: dispatch(fetchOrders({ page, limit }))
FetchOrdersPending ==
  /\ OrdersPendingState
  /\ orderInflight' = [orderInflight EXCEPT !["fetchOrders"] = @ + 1]
  /\ lastEvent' = [op |-> "pending", arg |-> "fetchOrders"]
  /\ UNCHANGED <<orderList, currentOrder, totalOrders, staleFetches, latestFetch, currentFromFetch>>
  /\ UNCHANGED <<prodVars, langVars, itemVars, tVars, orderVars, formVars, imageVars, variantVars, authVars, settingsVars, categoryVars>>

FetchOrdersFulfilled ==
  \E data \in SeqsUpTo(Orders, MaxOrderList) :
    /\ orderInflight["fetchOrders"] > 0
    /\ orderInflight' = [orderInflight EXCEPT !["fetchOrders"] = @ - 1]
    /\ ordersLoading' = FALSE
    /\ orderList' = data
    /\ totalOrders' = Len(data)
    /\ lastEvent' = [op |-> "fulfilled", arg |-> "fetchOrders"]
    /\ UNCHANGED <<currentOrder, ordersError, staleFetches, latestFetch, currentFromFetch>>
  /\ UNCHANGED <<prodVars, langVars, itemVars, tVars, orderVars, formVars, imageVars, variantVars, authVars, settingsVars, categoryVars>>

FetchOrdersRejected ==
  /\ orderInflight["fetchOrders"] > 0
  /\ orderInflight' = [orderInflight EXCEPT !["fetchOrders"] = @ - 1]
  /\ OrdersRejectedState("fetchOrders")
  /\ lastEvent' = [op |-> "rejected", arg |-> "fetchOrders"]
  /\ UNCHANGED <<orderList, currentOrder, totalOrders, staleFetches, latestFetch, currentFromFetch>>
  /\ UNCHANGED <<prodVars, langVars, itemVars, tVars, orderVars, formVars, imageVars, variantVars, authVars, settingsVars, categoryVars>>

\* the OrderDetail effect on [id]: dispatch(fetchOrderById(id)); a call still
\* in flight is from now on not the latest one
FetchOrderByIdPending ==
  \E id \in OrderIds :
    /\ OrdersPendingState
    /\ staleFetches' = IF latestFetch.phase = "pending"
                       THEN [staleFetches EXCEPT ![latestFetch.id] = @ + 1]
                       ELSE staleFetches
    /\ latestFetch' = [id |-> id, phase |-> "pending"]
    /\ lastEvent' = [op |-> "pending", arg |-> "fetchOrderById"]
    /\ UNCHANGED <<orderList, currentOrder, totalOrders, orderInflight, currentFromFetch>>
  /\ UNCHANGED <<prodVars, langVars, itemVars, tVars, orderVars, formVars, imageVars, variantVars, authVars, settingsVars, categoryVars>>

\* fetchOrderById.fulfilled for the call dispatched last
LatestFetchOrderByIdFulfilled ==
  \E status \in OrderStatuses :
    /\ latestFetch.phase = "pending"
    /\ latestFetch' = [latestFetch EXCEPT !.phase = "fulfilled"]
    /\ ordersLoading' = FALSE
    /\ currentOrder' = [id |-> latestFetch.id, status |-> status]
    /\ currentFromFetch' = TRUE
    /\ lastEvent' = [op |-> "fulfilled", arg |-> "fetchOrderById"]
    /\ UNCHANGED <<orderList, totalOrders, ordersError, orderInflight, staleFetches>>
  /\ UNCHANGED <<prodVars, langVars, itemVars, tVars, orderVars, formVars, imageVars, variantVars, authVars, settingsVars, categoryVars>>

\* fetchOrderById.fulfilled for an earlier call
StaleFetchOrderByIdFulfilled ==
  \E id \in OrderIds, status \in OrderStatuses :
    /\ staleFetches[id] > 0
    /\ staleFetches' = [staleFetches EXCEPT ![id] = @ - 1]
    /\ ordersLoading' = FALSE
    /\ currentOrder' = [id |-> id, status |-> status]
    /\ currentFromFetch' = TRUE
    /\ lastEvent' = [op |-> "fulfilled", arg |-> "fetchOrderById"]
    /\ UNCHANGED <<orderList, totalOrders, ordersError, orderInflight, latestFetch>>
  /\ UNCHANGED <<prodVars, langVars, itemVars, tVars, orderVars, formVars, imageVars, variantVars, authVars, settingsVars, categoryVars>>

\* fetchOrderById.rejected, for the latest call or an earlier one
FetchOrderByIdRejected ==
  /\ \/ /\ latestFetch.phase = "pending"
        /\ latestFetch' = [latestFetch EXCEPT !.phase = "rejected"]
        /\ UNCHANGED staleFetches
     \/ \E id \in OrderIds :
          /\ staleFetches[id] > 0
          /\ staleFetches' = [staleFetches EXCEPT ![id] = @ - 1]
          /\ UNCHANGED latestFetch
  /\ OrdersRejectedState("fetchOrderById")
  /\ lastEvent' = [op |-> "rejected", arg |-> "fetchOrderById"]
  /\ UNCHANGED <<orderList, currentOrder, totalOrders, orderInflight, currentFromFetch>>
  /\ UNCHANGED <<prodVars, langVars, itemVars, tVars, orderVars, formVars, imageVars, variantVars, authVars, settingsVars, categoryVars>>

\* dispatch of updateOrderStatus, updatePaymentStatus, addOrderNotes or
\* cancelOrder: the pending reducer
OrderUpdatePending(thunk) ==
  /\ OrdersPendingState
  /\ orderInflight' = [orderInflight EXCEPT ![thunk] = @ + 1]
  /\ UNCHANGED <<orderList, currentOrder, totalOrders, staleFetches, latestFetch, currentFromFetch>>
  /\ UNCHANGED <<prodVars, langVars, itemVars, tVars, orderVars, formVars, imageVars, variantVars, authVars, settingsVars, categoryVars>>

\* the status changes the order list page offers in a row's menu
ListStatusActions(order) ==
  (IF order.status # "shipped" /\ order.status # "delivered" THEN {"shipped"} ELSE {})
    \cup (IF order.status # "cancelled" THEN {"cancelled"} ELSE {})

\* the status changes the order detail page offers in its header
DetailStatusActions(order) ==
  (IF order.status # "shipped" /\ order.status # "delivered" /\ order.status # "cancelled"
   THEN {"shipped"} ELSE {})
    \cup (IF order.status = "shipped" THEN {"delivered"} ELSE {})
    \cup (IF order.status # "cancelled" THEN {"cancelled"} ELSE {})

\* the list page shows rows, the detail page an order
ListRowsShown == ~ordersLoading /\ ordersError = NoError
DetailShown == ~ordersLoading /\ ordersError = NoError /\ currentOrder # NoOrder

\* handleUpdateStatus of the order list page, from a row's menu
ListUpdateStatus ==
  \E i \in 1..Len(orderList) : \E status \in ListStatusActions(orderList[i]) :
    /\ ListRowsShown
    /\ OrderUpdatePending("updateOrderStatus")
    /\ lastEvent' = [op |-> "listUpdateStatus", arg |-> orderList[i].status]

\* handleUpdateStatus of the order detail page
DetailUpdateStatus ==
  \E status \in DetailStatusActions(currentOrder) :
    /\ DetailShown
    /\ OrderUpdatePending("updateOrderStatus")
    /\ lastEvent' = [op |-> "detailUpdateStatus", arg |-> currentOrder.status]

\* the other three thunks dispatched
OtherOrderUpdatePending ==
  \E thunk \in OrderUpdateThunks \ {"updateOrderStatus"} :
    /\ OrderUpdatePending(thunk)
    /\ lastEvent' = [op |-> "pending", arg |-> thunk]

\* the fulfilled reducer the four thunks share: the payload is the order as
\* the backend holds it after the change
OrderUpdateFulfilled ==
  \E thunk \in OrderUpdateThunks : \E order \in Orders :
    /\ orderInflight[thunk] > 0
    /\ orderInflight' = [orderInflight EXCEPT ![thunk] = @ - 1]
    /\ ordersLoading' = FALSE
    /\ currentOrder' = order
    /\ currentFromFetch' = FALSE
    /\ LET index == FindOrderIndex(orderList, order.id)
       IN orderList' = IF index # 0 THEN [orderList EXCEPT ![index] = order] ELSE orderList
    /\ lastEvent' = [op |-> "fulfilled", arg |-> thunk]
    /\ UNCHANGED <<totalOrders, ordersError, staleFetches, latestFetch>>
  /\ UNCHANGED <<prodVars, langVars, itemVars, tVars, orderVars, formVars, imageVars, variantVars, authVars, settingsVars, categoryVars>>

OrderUpdateRejected ==
  \E thunk \in OrderUpdateThunks :
    /\ orderInflight[thunk] > 0
    /\ orderInflight' = [orderInflight EXCEPT ![thunk] = @ - 1]
    /\ OrdersRejectedState(thunk)
    /\ lastEvent' = [op |-> "rejected", arg |-> thunk]
    /\ UNCHANGED <<orderList, currentOrder, totalOrders, staleFetches, latestFetch, currentFromFetch>>
  /\ UNCHANGED <<prodVars, langVars, itemVars, tVars, orderVars, formVars, imageVars, variantVars, authVars, settingsVars, categoryVars>>

IdleOrderSlice ==
  /\ orderList = <<>>
  /\ currentOrder = NoOrder
  /\ totalOrders = 0
  /\ ordersLoading = FALSE
  /\ ordersError = NoError
  /\ orderInflight = [thunk \in CountedOrderThunks |-> 0]
  /\ staleFetches = [id \in OrderIds |-> 0]
  /\ latestFetch = [id |-> 0, phase |-> "none"]
  /\ currentFromFetch = FALSE

NextOrderSlice ==
  \/ FetchOrdersPending \/ FetchOrdersFulfilled \/ FetchOrdersRejected
  \/ FetchOrderByIdPending \/ LatestFetchOrderByIdFulfilled
  \/ StaleFetchOrderByIdFulfilled \/ FetchOrderByIdRejected
  \/ ListUpdateStatus \/ DetailUpdateStatus \/ OtherOrderUpdatePending
  \/ OrderUpdateFulfilled \/ OrderUpdateRejected

(***************************************************************************)
(* store/slices/productSlice.ts, categorySlice: thunks and reducers        *)
(***************************************************************************)
CategoryIds == 1..MaxCategoryId
NoCategory == 0
\* categoryProducts has no key for the category
NoEntry == 0 - 1

PlainCategoryThunks ==
  {"fetchCategories", "fetchCategoryById", "createCategory", "updateCategory"}

CategoryRequestsInFlight ==
  SumOver(catInflight, PlainCategoryThunks) + SumOver(deletesInFlight, CategoryIds)
    + SumOver(productFetches, CategoryIds) + SumOver(lateFetches, CategoryIds)

\* every pending reducer of the slice
CategoryPendingState ==
  /\ CategoryRequestsInFlight < MaxCategoryRequests
  /\ catLoading' = TRUE
  /\ catError' = NoError
  /\ UNCHANGED <<categories, currentCategory, categoryProducts, deletedCategories>>
  /\ lastEvent' = [op |-> "pending", arg |-> "categories"]
  /\ UNCHANGED <<prodVars, langVars, itemVars, tVars, orderVars, formVars, imageVars, variantVars, authVars, settingsVars, orderSliceVars>>

\* every rejected reducer: error = action.error.message || the default
CategoryRejectedState(thunk) ==
  /\ catLoading' = FALSE
  /\ catError' = "Failed: " \o thunk
  /\ UNCHANGED <<categories, currentCategory, categoryProducts, deletedCategories>>
  /\ lastEvent' = [op |-> "rejected", arg |-> "categories"]
  /\ UNCHANGED <<prodVars, langVars, itemVars, tVars, orderVars, formVars, imageVars, variantVars, authVars, settingsVars, orderSliceVars>>

\* the part every fulfilled reducer shares
CategoryFulfilledState ==
  /\ catLoading' = FALSE
  /\ UNCHANGED catError
  /\ lastEvent' = [op |-> "fulfilled", arg |-> "categories"]
  /\ UNCHANGED <<prodVars, langVars, itemVars, tVars, orderVars, formVars, imageVars, variantVars, authVars, settingsVars, orderSliceVars>>

\* categories.filter((category) => category.id !== id)
RECURSIVE WithoutCategory(_, _)
WithoutCategory(list, id) ==
  IF list = <<>> THEN <<>>
  ELSE IF Head(list) = id THEN WithoutCategory(Tail(list), id)
       ELSE <<Head(list)>> \o WithoutCategory(Tail(list), id)

\* dispatch of fetchCategories, fetchCategoryById, createCategory or updateCategory
PlainCategoryPending ==
  \E thunk \in PlainCategoryThunks :
    /\ CategoryPendingState
    /\ catInflight' = [catInflight EXCEPT ![thunk] = @ + 1]
    /\ UNCHANGED <<deletesInFlight, productFetches, lateFetches>>

PlainCategoryRejected ==
  \E thunk \in PlainCategoryThunks :
    /\ catInflight[thunk] > 0
    /\ catInflight' = [catInflight EXCEPT ![thunk] = @ - 1]
    /\ CategoryRejectedState(thunk)
    /\ UNCHANGED <<deletesInFlight, productFetches, lateFetches>>

\* what a plain thunk's fulfilment leaves alone
PlainCategorySettle(thunk) ==
  /\ catInflight[thunk] > 0
  /\ catInflight' = [catInflight EXCEPT ![thunk] = @ - 1]
  /\ CategoryFulfilledState
  /\ UNCHANGED <<deletesInFlight, productFetches, lateFetches, categoryProducts,
                 deletedCategories>>

\* the backend lists and returns only categories it still holds
FetchCategoriesFulfilled ==
  \E data \in SeqsUpTo(CategoryIds \ deletedCategories, MaxCategories) :
    /\ PlainCategorySettle("fetchCategories")
    /\ categories' = data
    /\ UNCHANGED currentCategory

FetchCategoryByIdFulfilled ==
  \E id \in CategoryIds \ deletedCategories :
    /\ PlainCategorySettle("fetchCategoryById")
    /\ currentCategory' = id
    /\ UNCHANGED categories

\* createCategory.fulfilled: the new category has an id of its own
CreateCategoryFulfilled ==
  \E id \in CategoryIds \ deletedCategories :
    /\ \A i \in 1..Len(categories) : categories[i] # id
    /\ Len(categories) < MaxCategories
    /\ PlainCategorySettle("createCategory")
    /\ categories' = <<id>> \o categories
    /\ UNCHANGED currentCategory

\* updateCategory.fulfilled: the payload replaces the category of its id in
\* the list and in currentCategory
UpdateCategoryFulfilled ==
  \E id \in CategoryIds \ deletedCategories :
    /\ PlainCategorySettle("updateCategory")
    /\ UNCHANGED <<categories, currentCategory>>

\* handleDelete of the categories page: dispatch(deleteCategory(categoryId))
DeleteCategoryPending ==
  \E id \in CategoryIds \ deletedCategories :
    /\ CategoryPendingState
    /\ deletesInFlight' = [deletesInFlight EXCEPT ![id] = @ + 1]
    /\ UNCHANGED <<catInflight, productFetches, lateFetches>>

\* deleteCategory.fulfilled: the payload is the id the thunk was called with
DeleteCategoryFulfilled ==
  \E id \in CategoryIds :
    /\ deletesInFlight[id] > 0
    /\ deletesInFlight' = [deletesInFlight EXCEPT ![id] = @ - 1]
    /\ CategoryFulfilledState
    /\ categories' = WithoutCategory(categories, id)
    /\ currentCategory' = IF currentCategory = id THEN NoCategory ELSE currentCategory
    /\ categoryProducts' = [categoryProducts EXCEPT ![id] = NoEntry]
    /\ deletedCategories' = deletedCategories \cup {id}
    /\ UNCHANGED <<catInflight, productFetches, lateFetches>>

DeleteCategoryRejected ==
  \E id \in CategoryIds :
    /\ deletesInFlight[id] > 0
    /\ deletesInFlight' = [deletesInFlight EXCEPT ![id] = @ - 1]
    /\ CategoryRejectedState("deleteCategory")
    /\ UNCHANGED <<catInflight, productFetches, lateFetches>>

\* dispatch of fetchCategoryProducts({ categoryId }): a request sent after
\* the category's deletion can only fail
FetchCategoryProductsPending ==
  \E id \in CategoryIds :
    /\ CategoryPendingState
    /\ IF id \in deletedCategories
       THEN /\ lateFetches' = [lateFetches EXCEPT ![id] = @ + 1]
            /\ UNCHANGED productFetches
       ELSE /\ productFetches' = [productFetches EXCEPT ![id] = @ + 1]
            /\ UNCHANGED lateFetches
    /\ UNCHANGED <<catInflight, deletesInFlight>>

\* fetchCategoryProducts.fulfilled: the entry of the category is written
FetchCategoryProductsFulfilled ==
  \E id \in CategoryIds : \E count \in 0..MaxCategoryProducts :
    /\ productFetches[id] > 0
    /\ productFetches' = [productFetches EXCEPT ![id] = @ - 1]
    /\ CategoryFulfilledState
    /\ categoryProducts' = [categoryProducts EXCEPT ![id] = count]
    /\ UNCHANGED <<categories, currentCategory, deletedCategories>>
    /\ UNCHANGED <<catInflight, deletesInFlight, lateFetches>>

FetchCategoryProductsRejected ==
  /\ \/ \E id \in CategoryIds :
          /\ productFetches[id] > 0
          /\ productFetches' = [productFetches EXCEPT ![id] = @ - 1]
          /\ UNCHANGED lateFetches
     \/ \E id \in CategoryIds :
          /\ lateFetches[id] > 0
          /\ lateFetches' = [lateFetches EXCEPT ![id] = @ - 1]
          /\ UNCHANGED productFetches
  /\ CategoryRejectedState("fetchCategoryProducts")
  /\ UNCHANGED <<catInflight, deletesInFlight>>

\* the reducers clearCurrentCategory, clearError and clearCategoryProducts
ClearCurrentCategory ==
  /\ currentCategory # NoCategory
  /\ currentCategory' = NoCategory
  /\ lastEvent' = [op |-> "clearCurrentCategory", arg |-> "categories"]
  /\ UNCHANGED <<categories, catLoading, catError, categoryProducts, catInflight,
                 deletesInFlight, productFetches, lateFetches, deletedCategories>>
  /\ UNCHANGED <<prodVars, langVars, itemVars, tVars, orderVars, formVars, imageVars, variantVars, authVars, settingsVars, orderSliceVars>>

ClearCategoryError ==
  /\ catError # NoError
  /\ catError' = NoError
  /\ lastEvent' = [op |-> "clearError", arg |-> "categories"]
  /\ UNCHANGED <<categories, currentCategory, catLoading, categoryProducts, catInflight,
                 deletesInFlight, productFetches, lateFetches, deletedCategories>>
  /\ UNCHANGED <<prodVars, langVars, itemVars, tVars, orderVars, formVars, imageVars, variantVars, authVars, settingsVars, orderSliceVars>>

ClearCategoryProducts ==
  \E id \in CategoryIds :
    /\ categoryProducts[id] # NoEntry
    /\ categoryProducts' = [categoryProducts EXCEPT ![id] = NoEntry]
    /\ lastEvent' = [op |-> "clearCategoryProducts", arg |-> "categories"]
    /\ UNCHANGED <<categories, currentCategory, catLoading, catError, catInflight,
                   deletesInFlight, productFetches, lateFetches, deletedCategories>>
  /\ UNCHANGED <<prodVars, langVars, itemVars, tVars, orderVars, formVars, imageVars, variantVars, authVars, settingsVars, orderSliceVars>>

IdleCategories ==
  /\ categories = <<>>
  /\ currentCategory = NoCategory
  /\ catLoading = FALSE
  /\ catError = NoError
  /\ categoryProducts = [id \in CategoryIds |-> NoEntry]
  /\ catInflight = [thunk \in PlainCategoryThunks |-> 0]
  /\ deletesInFlight = [id \in CategoryIds |-> 0]
  /\ productFetches = [id \in CategoryIds |-> 0]
  /\ lateFetches = [id \in CategoryIds |-> 0]
  /\ deletedCategories = {}

NextCategories ==
  \/ PlainCategoryPending \/ PlainCategoryRejected
  \/ FetchCategoriesFulfilled \/ FetchCategoryByIdFulfilled
  \/ CreateCategoryFulfilled \/ UpdateCategoryFulfilled
  \/ DeleteCategoryPending \/ DeleteCategoryFulfilled \/ DeleteCategoryRejected
  \/ FetchCategoryProductsPending \/ FetchCategoryProductsFulfilled
  \/ FetchCategoryProductsRejected
  \/ ClearCurrentCategory \/ ClearCategoryError \/ ClearCategoryProducts

NoEvent == [op |-> "none", arg |-> "none"]

InitProductSlice ==
  /\ IdleCategories
  /\ IdleOrderSlice
  /\ IdleSettings
  /\ IdleAuth
  /\ InitProducts
  /\ lastPhase = "none"
  /\ IdleLocalization
  /\ IdleItems
  /\ IdleTranslation
  /\ IdleOrders
  /\ IdleForm
  /\ IdleImages
  /\ IdleVariations
  /\ lastEvent = NoEvent

SpecProducts == InitProductSlice /\ [][NextProducts]_vars

InitLanguageService ==
  /\ IdleCategories
  /\ IdleOrderSlice
  /\ IdleSettings
  /\ IdleAuth
  /\ InitLocalization
  /\ lastEvent = NoEvent
  /\ InitProducts
  /\ lastPhase = "none"
  /\ IdleItems
  /\ IdleTranslation
  /\ IdleOrders
  /\ IdleForm
  /\ IdleImages
  /\ IdleVariations

SpecLocalization == InitLanguageService /\ [][NextLocalization]_vars

InitItemLocalization ==
  /\ IdleCategories
  /\ IdleOrderSlice
  /\ IdleSettings
  /\ IdleAuth
  /\ InitItems
  /\ InitLocalization
  /\ lastEvent = NoEvent
  /\ InitProducts
  /\ lastPhase = "none"
  /\ IdleTranslation
  /\ IdleOrders
  /\ IdleForm
  /\ IdleImages
  /\ IdleVariations

SpecItems == InitItemLocalization /\ [][NextItems]_vars

InitTranslationHook ==
  /\ IdleCategories
  /\ IdleOrderSlice
  /\ IdleSettings
  /\ IdleAuth
  /\ InitTranslation
  /\ lastEvent = NoEvent
  /\ InitProducts
  /\ lastPhase = "none"
  /\ IdleLocalization
  /\ IdleItems
  /\ IdleOrders
  /\ IdleForm
  /\ IdleImages
  /\ IdleVariations

SpecTranslation == InitTranslationHook /\ [][NextTranslation]_vars

InitOrderService ==
  /\ IdleCategories
  /\ IdleOrderSlice
  /\ IdleSettings
  /\ IdleAuth
  /\ InitOrders
  /\ lastEvent = NoEvent
  /\ InitProducts
  /\ lastPhase = "none"
  /\ IdleLocalization
  /\ IdleItems
  /\ IdleTranslation
  /\ IdleForm
  /\ IdleImages
  /\ IdleVariations

SpecOrders == InitOrderService /\ [][NextOrders]_vars

InitProductForm ==
  /\ IdleCategories
  /\ IdleOrderSlice
  /\ IdleSettings
  /\ IdleAuth
  /\ InitForm
  /\ lastEvent = NoEvent
  /\ InitProducts
  /\ lastPhase = "none"
  /\ IdleLocalization
  /\ IdleItems
  /\ IdleTranslation
  /\ IdleOrders
  /\ IdleImages
  /\ IdleVariations

SpecForm == InitProductForm /\ [][NextForm]_vars

InitImageUpload ==
  /\ IdleCategories
  /\ IdleOrderSlice
  /\ IdleSettings
  /\ IdleAuth
  /\ InitImages
  /\ IdleVariations
  /\ lastEvent = NoEvent
  /\ InitProducts
  /\ lastPhase = "none"
  /\ IdleLocalization
  /\ IdleItems
  /\ IdleTranslation
  /\ IdleOrders
  /\ IdleForm

SpecImages == InitImageUpload /\ [][NextImages]_vars

InitProductVariations ==
  /\ IdleCategories
  /\ IdleOrderSlice
  /\ IdleSettings
  /\ IdleAuth
  /\ InitVariations
  /\ lastEvent = NoEvent
  /\ InitProducts
  /\ lastPhase = "none"
  /\ IdleLocalization
  /\ IdleItems
  /\ IdleTranslation
  /\ IdleOrders
  /\ IdleForm
  /\ IdleImages

SpecVariations == InitProductVariations /\ [][NextVariations]_vars

InitAuthSlice ==
  /\ IdleCategories
  /\ IdleOrderSlice
  /\ IdleSettings
  /\ InitAuth
  /\ lastEvent = NoEvent
  /\ InitProducts
  /\ lastPhase = "none"
  /\ IdleLocalization
  /\ IdleItems
  /\ IdleTranslation
  /\ IdleOrders
  /\ IdleForm
  /\ IdleImages
  /\ IdleVariations

SpecAuth == InitAuthSlice /\ [][NextAuth]_vars

InitSettingsSlice ==
  /\ IdleCategories
  /\ IdleOrderSlice
  /\ IdleSettings
  /\ lastEvent = NoEvent
  /\ InitProducts
  /\ lastPhase = "none"
  /\ IdleLocalization
  /\ IdleItems
  /\ IdleTranslation
  /\ IdleOrders
  /\ IdleForm
  /\ IdleImages
  /\ IdleVariations
  /\ IdleAuth

SpecSettings == InitSettingsSlice /\ [][NextSettings]_vars

InitOrderStore ==
  /\ IdleCategories
  /\ IdleOrderSlice
  /\ lastEvent = NoEvent
  /\ InitProducts
  /\ lastPhase = "none"
  /\ IdleLocalization
  /\ IdleItems
  /\ IdleTranslation
  /\ IdleOrders
  /\ IdleForm
  /\ IdleImages
  /\ IdleVariations
  /\ IdleAuth
  /\ IdleSettings

SpecOrderSlice == InitOrderStore /\ [][NextOrderSlice]_vars

InitCategorySlice ==
  /\ IdleCategories
  /\ lastEvent = NoEvent
  /\ InitProducts
  /\ lastPhase = "none"
  /\ IdleLocalization
  /\ IdleItems
  /\ IdleTranslation
  /\ IdleOrders
  /\ IdleForm
  /\ IdleImages
  /\ IdleVariations
  /\ IdleAuth
  /\ IdleSettings
  /\ IdleOrderSlice

SpecCategories == InitCategorySlice /\ [][NextCategories]_vars

MutatingThunks == {"createProduct", "updateProduct", "deleteProduct"}

\* C1: for createProduct, updateProduct and deleteProduct the product list,
\* currentProduct and pagination.total are left alone by the pending and the
\* rejected reducers; only a fulfilled call changes them.
C1_FrameEffect ==
  [][(/\ lastPhase' \in {"pending", "rejected"}
      /\ \E thunk \in MutatingThunks : inflight'[thunk] # inflight[thunk])
       => UNCHANGED <<products, currentProduct, total>>]_vars

\* a rejected delete that left a loaded store as it was and reported its error
C1_Witness ==
  /\ lastPhase = "rejected"
  /\ error = "Failed: deleteProduct"
  /\ products # <<>>
  /\ currentProduct # NoProduct
  /\ ~loading

\* C5: whatever localStorage and the browser report and whatever language
\* switches are requested, the service's current language is "en" or "ar".
C5_LanguageSupported == currentLanguage \in SupportedLanguages

\* initialised with an unsupported stored and an unsupported browser
\* language, after an unsupported switch was asked for
C5_Witness ==
  /\ isInitialized
  /\ storedLang = "fr"
  /\ browserLang = "fr"
  /\ lastEvent = [op |-> "switchLanguageThrew", arg |-> "fr"]
  /\ currentLanguage = "en"

\* C6: when switchLanguage(L) has completed successfully the current
\* language and localStorage preferred_language are L and the document
\* direction is rtl for "ar" and ltr otherwise.
C6_SwitchEffect ==
  lastEvent.op = "switchLanguageResolved" =>
    /\ currentLanguage = lastEvent.arg
    /\ storedLang = lastEvent.arg
    /\ docDir = (IF lastEvent.arg = "ar" THEN "rtl" ELSE "ltr")

\* a switch to Arabic completed while a switch to English is still in flight
C6_Witness ==
  /\ lastEvent = [op |-> "switchLanguageResolved", arg |-> "ar"]
  /\ switching["en"] > 0
  /\ docDir = "rtl"

\* the language whose translation the item is localized from: the requested
\* one (the current one when none is requested) if the item has it, else
\* English if the item has it, else none
C7_Source ==
  LET lang == IF requestedLang # NoValue THEN requestedLang ELSE currentLanguage
  IN IF lang \in DOMAIN item.translations THEN lang
     ELSE IF "en" \in DOMAIN item.translations THEN "en"
     ELSE NoValue

\* C7: applyProductLocalization and applyCategoryLocalization take name and
\* description from the requested language's translation, else from the
\* English one, else return the item unchanged; a blank translated field
\* falls back to the item's own field and no other field is altered.
C7_Localized ==
  lastEvent.op \in {"applyProductLocalization", "applyCategoryLocalization"} =>
    /\ localized.rest = item.rest
    /\ localized.translations = item.translations
    /\ IF C7_Source = NoValue
       THEN localized = item
       ELSE LET t == item.translations[C7_Source]
            IN /\ localized.name = (IF t.name = "" THEN item.name ELSE t.name)
               /\ localized.description =
                    (IF t.description = "" THEN item.description ELSE t.description)

\* Arabic was asked for, the item has only an English translation whose
\* description is blank: the name is the English one, the description its own
C7_Witness ==
  /\ lastEvent = [op |-> "applyProductLocalization", arg |-> "ar"]
  /\ DOMAIN item.translations = {"en"}
  /\ item.translations["en"] = [name |-> "en-name", description |-> ""]
  /\ item.description = "own-description"
  /\ localized.name = "en-name"
  /\ localized.description = "own-description"

\* the values an option offers
ValuesOf(option) == {option.values[i] : i \in 1..Len(option.values)}

\* the combinations that pick one value from each option
CombinationsOf(opts) ==
  {c \in [{opts[j].name : j \in 1..Len(opts)} -> OptionValues] :
     \A j \in 1..Len(opts) : c[opts[j].name] \in ValuesOf(opts[j])}

RECURSIVE ValueCountProduct(_)
ValueCountProduct(opts) ==
  IF opts = <<>> THEN 1
  ELSE Len(Head(opts).values) * ValueCountProduct(Tail(opts))

\* C2: given a non-empty list of options, generateVariants leaves a variant
\* list with exactly one variant for every combination that picks one value
\* from each option, and no other variant, so that the number of variants is
\* the product of the options' value counts.
C2_ExactlyAllCombinations ==
  (lastEvent.op = "generateVariants" /\ Len(options) > 0)
    => /\ \A c \in CombinationsOf(options) :
            Cardinality({i \in 1..Len(variants) : variants[i].attributes = c}) = 1
       /\ \A i \in 1..Len(variants) :
            variants[i].attributes \in CombinationsOf(options)
       /\ Len(variants) = ValueCountProduct(options)

\* the key's path leads to a member of the language's file
C3_PathFound(language) == Navigate(TranslationsOf(language), tKey) # Missing

\* the key resolves to a string in the language's file
C3_ResolvesToString(language) == Navigate(TranslationsOf(language), tKey).kind = "str"

\* C3: a key whose path is not found in the current language but resolves
\* to a string in English is translated to the English string.
C3_EnglishFallback ==
  (lastEvent.op = "t" /\ ~C3_PathFound(ctxLanguage) /\ C3_ResolvesToString("en"))
    => tResult = Navigate(enTranslations, tKey).str

\* Arabic lacks the nested key a.b, English has it
C3_Witness ==
  /\ lastEvent = [op |-> "t", arg |-> "a.b"]
  /\ ctxLanguage = "ar"
  /\ arTranslations.fields["a"] = Missing
  /\ tResult = "English"

\* C4 as stated: t returns the key itself exactly when the key resolves to a
\* string in neither the current language nor English, and a translation
\* string in every other case.
C4_KeyIffNoString ==
  lastEvent.op = "t" =>
    /\ (tResult = KeyText(tKey)) <=>
         (~C3_ResolvesToString(ctxLanguage) /\ ~C3_ResolvesToString("en"))
    /\ tResult # KeyText(tKey) => tResult \in {"English", "Arabic"}

\* C4 amended: t returns the key itself exactly when the key's path is found
\* in the current language with a value that is not a string, or is not
\* found there and does not resolve to a string in English; in every other
\* case it returns the current language's string, or the English one when
\* the path is not found in the current language.
C4_KeyIffUnresolved ==
  lastEvent.op = "t" =>
    /\ (tResult = KeyText(tKey)) <=>
         \/ C3_PathFound(ctxLanguage) /\ ~C3_ResolvesToString(ctxLanguage)
         \/ ~C3_PathFound(ctxLanguage) /\ ~C3_ResolvesToString("en")
    /\ tResult # KeyText(tKey) =>
         tResult = (IF C3_PathFound(ctxLanguage)
                    THEN Navigate(TranslationsOf(ctxLanguage), tKey).str
                    ELSE Navigate(enTranslations, tKey).str)

\* Arabic has a section at the key, English a string: t returned the key
C4_Witness ==
  /\ lastEvent = [op |-> "t", arg |-> "a"]
  /\ ctxLanguage = "ar"
  /\ arTranslations.fields["a"].kind = "obj"
  /\ enTranslations.fields["a"].kind = "str"
  /\ tResult = "a"

\* C8: for every customer id, page and limit, getOrdersByCustomer returns
\* the list of orders getUserOrders returns for the same arguments.
C8_SameOrders ==
  (userOrders # Undefined /\ customerOrders # Undefined) => customerOrders = userOrders

\* C9: every payload the product form passes to onSubmit has
\* translations.en.name equal to the product's name and
\* translations.en.description equal to its description, also when the
\* product arrived with an English translation.
C9_EnglishSynced ==
  lastEvent.op = "onSubmit" =>
    /\ "en" \in DOMAIN payload.translations
    /\ payload.translations["en"].name = payload.name
    /\ payload.translations["en"].description = payload.description

\* C10: starting from at most maxImages images, after any uploads and
\* removals the image list passed to onChange never has more than
\* maxImages entries.
C10_AtMostMaxImages == Len(images) <= maxImages

\* an upload of two files was refused when there was room for one only
C10_Witness ==
  /\ lastEvent = [op |-> "uploadRefused", arg |-> "uploadthing"]
  /\ Len(images) = maxImages - 1

\* C11: once login has fulfilled and no logout has been requested, the user
\* stays authenticated: isAuthenticated is true and the token is present in
\* the store and in localStorage, also when a checkAuthStatus call that
\* started before the login finished fails afterwards.
C11_StaysAuthenticated ==
  loginHeld => /\ isAuthenticated
               /\ authToken # NoValue
               /\ lsToken # NoValue

\* C12: in a Redux slice, loading is true whenever at least one of the
\* slice's requests is still in flight, also when two requests overlap, as
\* fetchSystemSettings and fetchUserSettings do on the settings page.
C12_LoadingWhileInFlight == SettingsInFlightCount > 0 => settingsLoading

\* C13: when fetchOrderById is dispatched for order A and then for order B,
\* once both requests have completed currentOrder is order B, whichever
\* response arrived first.
C13_LatestOrderShown ==
  (/\ latestFetch.phase = "fulfilled"
   /\ SumOver(staleFetches, OrderIds) = 0
   /\ currentFromFetch)
    => currentOrder.id = latestFetch.id

\* C16: for an order whose status is cancelled, neither the order list page
\* nor the order detail page offers an action that changes its status.
C16_NoActionOnCancelled ==
  /\ \A i \in 1..Len(orderList) :
       (ListRowsShown /\ orderList[i].status = "cancelled")
         => ListStatusActions(orderList[i]) = {}
  /\ (DetailShown /\ currentOrder.status = "cancelled")
       => DetailStatusActions(currentOrder) = {}

\* C14: after deleteCategory for a category has fulfilled, the store holds no
\* categoryProducts entry for that category from then on, also when a
\* fetchCategoryProducts request for it was in flight at the deletion.
C14_NoProductsOfDeleted ==
  \A id \in deletedCategories : categoryProducts[id] = NoEntry

\* the names of the current options
CurrentOptionNames == {options[j].name : j \in 1..Len(options)}

\* C15: after any sequence of addOption, removeOption and saveEditOption,
\* once the effect on [options] has run, every variant has exactly one
\* attribute for each current option and none for another name, and no two
\* variants have the same attribute values.
C15_VariantsMatchOptions ==
  ~effectPending =>
    /\ \A i \in 1..Len(variants) : DOMAIN variants[i].attributes = CurrentOptionNames
    /\ \A i, j \in 1..Len(variants) :
         i # j => variants[i].attributes # variants[j].attributes
====
